---- MODULE Spec2Model ----
(***************************************************************************)
(* Semantic memory indexer of innie (packages/memory/src/indexer.ts, the   *)
(* version with topics and relatedness expansion): chunking of markdown    *)
(* files, the vector store kept by indexItem / indexItems / indexFile /    *)
(* indexJournalEntry / rebuildIndex, and searchMemory.                     *)
(*                                                                         *)
(* Text is modelled line by line.  A document is a sequence of lines; a    *)
(* line is [kind, text] where kind says how the line starts ("h2": with    *)
(* "## ", "h1": with "# ", "text": neither) and text is the rest of the    *)
(* line.  Strings that the code builds (ids, chunk contents) are built    *)
(* here with \o, so two items have equal ids exactly when the code's      *)
(* template strings are equal.                                             *)
(***************************************************************************)
EXTENDS Integers, Sequences, FiniteSets, TLC

VARIABLES
    files,      \* the source tree: path -> [exists, content]
    topicsMd,   \* state/topics.md, the derived listing: [exists, entries]
    log,        \* logs/journal.jsonl: sequence of lines
    store,      \* the vectra index: id -> metadata and vector
    index,      \* the index directory, the singleton handle on it, and the
                \* getIndex calls in flight
    resp,       \* the last completed call and what it returned
    jts,        \* history: timestamps given to indexJournalEntry since the
                \* store was last cleared
    rb,         \* the rebuildIndex call in flight, when it runs step by step
    sched       \* the scheduler daemon, its one-shot reminder and the clock

vars == <<files, topicsMd, log, store, index, resp, jts, rb, sched>>

----------------------------------------------------------------------------
(* Bounds of the model *)

MaxLog == 2          \* lines in journal.jsonl
MaxLimit == 2        \* largest limit given to searchMemory
NumItems == 9        \* MemoryItems that indexItem is called with
MaxTime == 4         \* ticks of the scheduler's clock

----------------------------------------------------------------------------
(* Lines and documents *)

T(t) == [kind |-> "text", text |-> t]
H2(t) == [kind |-> "h2", text |-> t]
H1(t) == [kind |-> "h1", text |-> t]

\* String.prototype.trim on one line: the lines of the model carry
\* whitespace only in these forms.
IsBlank(t) == t \in {"", " "}
TrimLeft(t) == IF IsBlank(t) THEN "" ELSE IF t = " Risks" THEN "Risks" ELSE t
TrimRight(t) == IF IsBlank(t) THEN "" ELSE t
TrimBoth(t) == TrimRight(TrimLeft(t))

RenderLine(l) ==
    CASE l.kind = "h2" -> "## " \o l.text
      [] l.kind = "h1" -> "# " \o l.text
      [] OTHER -> l.text

RECURSIVE JoinLines(_)
JoinLines(s) ==
    IF s = <<>> THEN ""
    ELSE IF Len(s) = 1 THEN s[1]
    ELSE s[1] \o "\n" \o JoinLines(Tail(s))

RECURSIVE DropLeadingBlank(_)
DropLeadingBlank(s) ==
    IF s = <<>> THEN s
    ELSE IF IsBlank(s[1]) THEN DropLeadingBlank(Tail(s)) ELSE s

RECURSIVE DropTrailingBlank(_)
DropTrailingBlank(s) ==
    IF s = <<>> THEN s
    ELSE IF IsBlank(s[Len(s)]) THEN DropTrailingBlank(SubSeq(s, 1, Len(s) - 1))
    ELSE s

\* trim() of the text whose lines are s, as a string
TrimStr(s) ==
    LET t == DropTrailingBlank(DropLeadingBlank(s)) IN
    IF t = <<>> THEN ""
    ELSE IF Len(t) = 1 THEN TrimBoth(t[1])
    ELSE JoinLines(<<TrimLeft(t[1])>> \o SubSeq(t, 2, Len(t) - 1)
                   \o <<TrimRight(t[Len(t)])>>)

\* content.split(/^## /m): segment 1 holds the lines before the first "## "
\* line; every later segment starts with the rest of its "## " line.
RECURSIVE SplitFrom(_, _, _)
SplitFrom(doc, i, acc) ==
    IF i > Len(doc) THEN acc
    ELSE SplitFrom(doc, i + 1,
                   IF doc[i].kind = "h2"
                   THEN Append(acc, <<doc[i].text>>)
                   ELSE [acc EXCEPT ![Len(acc)] = Append(@, RenderLine(doc[i]))])

SplitSections(doc) == SplitFrom(doc, 1, << <<>> >>)

----------------------------------------------------------------------------
(* Paths *)

RECURSIVE PathStr(_)
PathStr(p) ==
    IF Len(p) = 1 THEN p[1] ELSE p[1] \o "/" \o PathStr(Tail(p))

\* filePath.split("/").pop() || filePath
Filename(p) == IF p[Len(p)] = "" THEN PathStr(p) ELSE p[Len(p)]

STATE_PATH == <<"state">>


\* The source tree of the model, in readdir order (directory entries by name,
\* a sub-directory walked where it stands).
P_today == <<"state", "today.md">>
P_a == <<"state", "projects", "a.md">>
P_xa == <<"state", "projects", "x", "a.md">>
P_t == <<"state", "topics", "t.md">>
P_u == <<"state", "topics", "u.md">>
FsOrder == <<P_a, P_xa, P_today, P_t, P_u>>
FsPaths == {FsOrder[i] : i \in 1..Len(FsOrder)}

\* entry.name.endsWith(".md"), and filename.replace(/\.md$/, "")
EndsWithMd(name) == name \in {"today.md", "inbox.md", "commitments.md",
                              "ambient-tasks.md", "a.md", "t.md", "u.md"}
StripMd(name) ==
    CASE name = "a.md" -> "a" [] name = "t.md" -> "t" [] name = "u.md" -> "u"
      [] name = "today.md" -> "today" [] OTHER -> name

IsPrefix(d, p) == Len(d) < Len(p) /\ SubSeq(p, 1, Len(d)) = d

\* readFile: fails on a path that does not exist
ReadFile(fs, p) ==
    IF p \in DOMAIN fs /\ fs[p].exists
    THEN [ok |-> TRUE, content |-> fs[p].content]
    ELSE [ok |-> FALSE, content |-> <<>>]

\* findMarkdownFiles(dir): the .md files below dir, depth first; [] when
\* the directory does not exist
FindMarkdownFiles(fs, dir) ==
    SelectSeq(FsOrder, LAMBDA p : /\ fs[p].exists
                                  /\ IsPrefix(dir, p)
                                  /\ EndsWithMd(p[Len(p)]))

----------------------------------------------------------------------------
(* Timestamps: ISO-8601 strings, modelled as strings of digits.  <<>> is   *)
(* the empty string and also stands for an absent timestamp (both falsy). *)

RECURSIVE TsStr(_)
TsStr(ts) == IF ts = <<>> THEN "" ELSE ToString(ts[1]) \o TsStr(Tail(ts))

\* a < b on strings: by code unit, a proper prefix is smaller
RECURSIVE StrLess(_, _)
StrLess(a, b) ==
    IF b = <<>> THEN FALSE
    ELSE IF a = <<>> THEN TRUE
    ELSE IF a[1] # b[1] THEN a[1] < b[1]
    ELSE StrLess(Tail(a), Tail(b))

----------------------------------------------------------------------------
(* MemoryItems *)

NoSection == ""
NoTimestamp == <<>>

MemoryItem(id, type, content, source, section, timestamp) ==
    [id |-> id, type |-> type, content |-> content, source |-> source,
     section |-> section, timestamp |-> timestamp]

\* The section loop shared in shape by parseMarkdownForIndexing and
\* indexFile: JS index i runs over 1..sections.length-1 (sections[i] is
\* segment i+1 here); a section with an empty body is dropped and its
\* index is not reused.
RECURSIVE SectionItemsFrom(_, _, _, _, _, _)
SectionItemsFrom(sections, i, type, filename, source, items) ==
    IF i > Len(sections) - 1 THEN items
    ELSE LET section == sections[i + 1]
             firstLine == section[1]
             sectionTitle == TrimBoth(firstLine)
             sectionContent == TrimStr(Tail(section))
         IN SectionItemsFrom(sections, i + 1, type, filename, source,
              IF JoinLines(section) = "" THEN items   \* if (!section) continue
              ELSE IF sectionContent # ""
              THEN Append(items,
                     MemoryItem(type \o "-" \o filename \o "-" \o ToString(i),
                                type,
                                "## " \o sectionTitle \o "\n\n" \o sectionContent,
                                source, sectionTitle, NoTimestamp))
              ELSE items)

ParseSectionItems(sections, type, filename, source) ==
    SectionItemsFrom(sections, 1, type, filename, source, <<>>)

\* mutant of PreambleItems: the first segment is tested without trim
PreambleItemsUntrimmed(sections, type, filename, source) ==
    IF JoinLines(sections[1]) # ""
    THEN << MemoryItem(type \o "-" \o filename \o "-preamble", type,
                       TrimStr(sections[1]), source, "preamble", NoTimestamp) >>
    ELSE <<>>

PreambleItems(sections, type, filename, source) ==
    IF TrimStr(sections[1]) # ""
    THEN << MemoryItem(type \o "-" \o filename \o "-preamble", type,
                       TrimStr(sections[1]), source, "preamble", NoTimestamp) >>
    ELSE <<>>

\* mutant of MarkdownSectionsFrom: sections are numbered by the items
\* kept so far, not by their position
RECURSIVE MarkdownSectionsRenumbered(_, _, _, _, _, _)
MarkdownSectionsRenumbered(sections, i, type, filename, source, items) ==
    IF i > Len(sections) - 1 THEN items
    ELSE LET section == sections[i + 1]
             sectionTitle == TrimBoth(section[1])
             sectionContent == TrimStr(Tail(section))
             n == Len(SelectSeq(items, LAMBDA x : x.section # "preamble")) + 1
         IN MarkdownSectionsRenumbered(sections, i + 1, type, filename, source,
              IF sectionContent # ""
              THEN Append(items,
                     MemoryItem(type \o "-" \o filename \o "-" \o ToString(n),
                                type,
                                "## " \o sectionTitle \o "\n\n" \o sectionContent,
                                source, sectionTitle, NoTimestamp))
              ELSE items)

\* the section loop of parseMarkdownForIndexing, started with the items
\* pushed before it
RECURSIVE MarkdownSectionsFrom(_, _, _, _, _, _)
MarkdownSectionsFrom(sections, i, type, filename, source, items) ==
    IF i > Len(sections) - 1 THEN items
    ELSE LET section == sections[i + 1]
             firstLine == section[1]
             sectionTitle == TrimBoth(firstLine)
             sectionContent == TrimStr(Tail(section))
         IN MarkdownSectionsFrom(sections, i + 1, type, filename, source,
              IF sectionContent # ""
              THEN Append(items,
                     [id |-> type \o "-" \o filename \o "-" \o ToString(i),
                      type |-> type,
                      content |-> "## " \o sectionTitle \o "\n\n" \o sectionContent,
                      source |-> source,
                      section |-> sectionTitle,
                      timestamp |-> NoTimestamp])
              ELSE items)

\* the preamble of parseMarkdownForIndexing
MarkdownPreamble(sections, type, filename, source) ==
    LET preamble == TrimStr(sections[1]) IN
    IF preamble = "" THEN <<>>
    ELSE << [id |-> type \o "-" \o filename \o "-preamble", type |-> type,
             content |-> preamble, source |-> source,
             section |-> "preamble", timestamp |-> NoTimestamp] >>

\* parseMarkdownForIndexing(filePath, type): [] when the file cannot be read
ParseMarkdownForIndexing(fs, filePath, type) ==
    LET r == ReadFile(fs, filePath) IN
    IF ~r.ok THEN <<>>
    ELSE LET filename == Filename(filePath)
             sections == SplitSections(r.content)
         IN MarkdownSectionsFrom(sections, 1, type, filename, PathStr(filePath),
                MarkdownPreamble(sections, type, filename, PathStr(filePath)))

\* the topic item of indexFile and of rebuildIndex: the whole file, trimmed
TopicItem(filePath, content) ==
    MemoryItem("topic-" \o Filename(filePath), "topic",
               TrimStr([i \in 1..Len(content) |-> RenderLine(content[i])]),
               PathStr(filePath), NoSection, NoTimestamp)

\* the items indexFile derives for a non-topic type
IndexFileItems(filePath, content, type) ==
    LET filename == Filename(filePath)
        sections == SplitSections(content)
    IN PreambleItems(sections, type, filename, PathStr(filePath))
       \o ParseSectionItems(sections, type, filename, PathStr(filePath))

\* mutant of JournalId: the id keeps only the leading part of the timestamp
JournalIdByDate(timestamp) == "journal-" \o TsStr(SubSeq(timestamp, 1, 1))

\* the item indexJournalEntry writes
JournalId(timestamp) == "journal-" \o TsStr(timestamp)

JournalItem(entry) ==
    MemoryItem(JournalId(entry.timestamp), "journal",
               "[" \o entry.topic \o "] " \o entry.content,
               "journal.jsonl", NoSection, entry.timestamp)

----------------------------------------------------------------------------
(* Embedding service and vector store (external; contract of their use)   *)
(*                                                                         *)
(* embed is a deterministic function of the text.  Here a vector is one of *)
(* eight unit vectors 45 degrees apart, picked by the length of the text,  *)
(* and the store's score is the cosine of the angle between two vectors,   *)
(* in thousandths.                                                         *)

Embed(text) == Len(text) % 8

\* embedBatch(texts)
EmbedBatch(texts) == [i \in 1..Len(texts) |-> Embed(texts[i])]

CosMilli == <<1000, 707, 0, -707, -1000>>

Similarity(u, v) ==
    LET d == IF u >= v THEN u - v ELSE v - u
        a == IF d > 4 THEN 8 - d ELSE d
    IN CosMilli[a + 1]

\* what indexItem / indexItems hand to upsertItem for an item: section and
\* timestamp are set only when truthy (absent and "" are the same here)
Metadata(item, vector) ==
    [type |-> item.type, content |-> item.content, source |-> item.source,
     section |-> item.section, timestamp |-> item.timestamp,
     vector |-> vector]

\* mutant of UpsertItem: every call inserts under a fresh key (insertItem
\* semantics on an index that does not enforce unique ids)
UpsertItemFresh(st, id, meta) ==
    [k \in (DOMAIN st) \cup {id \o "#" \o ToString(Cardinality(DOMAIN st))} |->
        IF k \in DOMAIN st THEN st[k] ELSE meta]

\* idx.upsertItem({id, vector, metadata}): insert, or replace the item
\* that has this id
UpsertItem(st, id, meta) ==
    [k \in (DOMAIN st) \cup {id} |-> IF k = id THEN meta ELSE st[k]]

\* idx.deleteItem(id)
DeleteItem(st, id) == [k \in (DOMAIN st) \ {id} |-> st[k]]

\* idx.listItems()
ListItems(st) == DOMAIN st

EmptyStore == [k \in {} |-> 0]

\* the operations that start with getIndex(), as callers of getIndex
Callers == {"indexFile", "searchMemory", "getIndexStats"}

\* before the first call of a process: no handle; the index directory may
\* not exist yet.  handles counts the LocalIndex objects made, creates the
\* createIndex() calls, pcs is where each caller stands in getIndex.
NoIndex == [handle |-> FALSE, created |-> FALSE, handles |-> 0, creates |-> 0,
            pcs |-> [c \in Callers |-> "idle"]]

\* getIndex() run without another call beside it: the singleton if there
\* is one; else mkdir(INDEX_PATH), a new LocalIndex, and createIndex()
\* unless isIndexCreated()
GetIndex(ix) ==
    IF ix.handle THEN ix
    ELSE [ix EXCEPT !.handle = TRUE, !.created = TRUE, !.handles = @ + 1,
                    !.creates = IF ix.created THEN @ ELSE @ + 1]

\* idx.queryItems(vector, topK): the topK items nearest to vector, by
\* score, descending; items of equal score in an order the store decides
RECURSIVE Ranked(_, _, _, _)
Ranked(st, ids, vector, k) ==
    IF k = 0 \/ ids = {} THEN <<>>
    ELSE LET best == CHOOSE x \in ids : \A y \in ids :
                        Similarity(st[x].vector, vector)
                            >= Similarity(st[y].vector, vector)
         IN << [id |-> best, score |-> Similarity(st[best].vector, vector)] >>
            \o Ranked(st, ids \ {best}, vector, k - 1)

QueryItems(st, vector, topK) == Ranked(st, DOMAIN st, vector, topK)

----------------------------------------------------------------------------
(* indexItem, indexItems, indexJournalEntry, indexFile on a store value *)

IndexItem(st, item) ==
    UpsertItem(st, item.id, Metadata(item, Embed(item.content)))

\* mutant of UpsertFrom: an id the store already holds is left as it is
RECURSIVE UpsertFromKeepExisting(_, _, _, _)
UpsertFromKeepExisting(st, items, vectors, i) ==
    IF i > Len(items) THEN st
    ELSE UpsertFromKeepExisting(
            IF items[i].id \in DOMAIN st THEN st
            ELSE UpsertItem(st, items[i].id, Metadata(items[i], vectors[i])),
            items, vectors, i + 1)

RECURSIVE UpsertFrom(_, _, _, _)
UpsertFrom(st, items, vectors, i) ==
    IF i > Len(items) THEN st
    ELSE UpsertFrom(UpsertItem(st, items[i].id, Metadata(items[i], vectors[i])),
                    items, vectors, i + 1)

IndexItems(st, items) ==
    IF Len(items) = 0 THEN st
    ELSE UpsertFrom(st, items,
                    EmbedBatch([i \in 1..Len(items) |-> items[i].content]), 1)

\* indexJournalEntry writes the timestamp whatever it is
IndexJournalEntry(st, entry) ==
    LET item == JournalItem(entry) IN
    UpsertItem(st, item.id, Metadata(item, Embed(item.content)))

\* mutant of IndexFile: the entries the store holds for this file are
\* deleted before the new items are written
IndexFileReplacing(st, filePath, content, type) ==
    LET kept == [k \in {k \in DOMAIN st : st[k].source # PathStr(filePath)}
                   |-> st[k]]
        items == IndexFileItems(filePath, content, type)
    IN IF type = "topic"
       THEN [store |-> IndexItem(kept, TopicItem(filePath, content)),
             itemCount |-> 1]
       ELSE [store |-> IndexItems(kept, items), itemCount |-> Len(items)]

\* mutant of IndexFile: a topic file is split into sections like any other
IndexFileNoTopicBranch(st, filePath, content, type) ==
    LET items == IndexFileItems(filePath, content, type) IN
    [store |-> IndexItems(st, items), itemCount |-> Len(items)]

\* indexFile(filePath, content, type): the store afterwards and itemCount
IndexFile(st, filePath, content, type) ==
    IF type = "topic"
    THEN [store |-> IndexItem(st, TopicItem(filePath, content)),
          itemCount |-> 1]
    ELSE LET items == IndexFileItems(filePath, content, type) IN
         [store |-> IF Len(items) > 0 THEN IndexItems(st, items) ELSE st,
          itemCount |-> Len(items)]

----------------------------------------------------------------------------
(* generateTopicsIndex *)

\* a.title.localeCompare(b.title) < 0, for the titles of the model
TitleRank(title) ==
    CASE title = "a" -> 1 [] title = "Alpha" -> 2 [] title = "Notes" -> 3
      [] title = "t" -> 4 [] title = "u" -> 5 [] title = "x" -> 6
      [] OTHER -> 7

\* what /^#\s+(.+)$/m captures in content, "" when it does not match: at
\* the first "# " line, \s+ runs over blanks and line ends up to the next
\* character that is not white space, and (.+) takes the rest of that line
TitleMatch(content) ==
    LET hs == {i \in 1..Len(content) : content[i].kind = "h1"}
        first == CHOOSE i \in hs : \A j \in hs : i <= j
        rest == {j \in 1..Len(content) :
                   j > first /\ ~IsBlank(RenderLine(content[j]))}
    IN IF hs = {} THEN ""
       ELSE IF ~IsBlank(content[first].text) THEN TrimLeft(content[first].text)
       ELSE IF rest = {} THEN ""
       ELSE TrimLeft(RenderLine(content[CHOOSE j \in rest : \A k \in rest : j <= k]))

TopicTitleKeepMd(content, filename) ==
    IF TitleMatch(content) # "" THEN TitleMatch(content) ELSE filename

\* titleMatch ? titleMatch[1] : filename.replace(/\.md$/, "")
TopicTitle(content, filename) ==
    IF TitleMatch(content) # "" THEN TitleMatch(content) ELSE StripMd(filename)

\* entries.sort(by title), stable
RECURSIVE SortByTitle(_)
SortByTitle(entries) ==
    IF entries = <<>> THEN <<>>
    ELSE LET rest == SortByTitle(Tail(entries))
             e == Head(entries)
             before == SelectSeq(rest, LAMBDA x : TitleRank(x.title) < TitleRank(e.title))
             after == SelectSeq(rest, LAMBDA x : TitleRank(x.title) >= TitleRank(e.title))
         IN before \o <<e>> \o after

\* the lines written to state/topics.md
GenerateTopicsIndex(fs) ==
    LET found == FindMarkdownFiles(fs, STATE_PATH \o <<"topics">>)
        entries == [i \in 1..Len(found) |->
                      [filename |-> Filename(found[i]),
                       title |-> TopicTitle(fs[found[i]].content,
                                            Filename(found[i]))]]
        sorted == SortByTitle(entries)
    IN [exists |-> TRUE,
        lines |-> <<"# Topics", "",
                    "Working knowledge - distilled understanding of concepts and tools.",
                    "">>
                  \o [i \in 1..Len(sorted) |->
                        "- " \o sorted[i].filename \o " - " \o sorted[i].title]
                  \o <<"">>]

----------------------------------------------------------------------------
(* rebuildIndex *)

StateFiles == <<"today.md", "inbox.md", "commitments.md", "ambient-tasks.md">>

RECURSIVE Flatten(_)
Flatten(ss) == IF ss = <<>> THEN <<>> ELSE Head(ss) \o Flatten(Tail(ss))

\* the items of every file of a directory, parsed with one type
DirItems(fs, dir, type) ==
    LET found == FindMarkdownFiles(fs, STATE_PATH \o <<dir>>) IN
    Flatten([i \in 1..Len(found) |-> ParseMarkdownForIndexing(fs, found[i], type)])

NonJournalItemsTopicsFirst(fs) ==
    LET topicFiles == FindMarkdownFiles(fs, STATE_PATH \o <<"topics">>) IN
    [i \in 1..Len(topicFiles) |->
       TopicItem(topicFiles[i], fs[topicFiles[i]].content)]
    \o Flatten([i \in 1..Len(StateFiles) |->
               ParseMarkdownForIndexing(fs, STATE_PATH \o <<StateFiles[i]>>, "state")])
    \o DirItems(fs, "projects", "project")

\* steps 2-6 of rebuildIndex: nonJournalItems
NonJournalItems(fs) ==
    LET topicFiles == FindMarkdownFiles(fs, STATE_PATH \o <<"topics">>) IN
    Flatten([i \in 1..Len(StateFiles) |->
               ParseMarkdownForIndexing(fs, STATE_PATH \o <<StateFiles[i]>>, "state")])
    \o DirItems(fs, "projects", "project")
    \o DirItems(fs, "people", "person")
    \o DirItems(fs, "meetings", "meeting")
    \o [i \in 1..Len(topicFiles) |->
          TopicItem(topicFiles[i], fs[topicFiles[i]].content)]

\* the journal loop of rebuildIndex: JSON.parse of a malformed line throws
\* into the catch around the whole loop, which ends the loop
RECURSIVE JournalLoopFrom(_, _, _)
JournalLoopFrom(lines, i, acc) ==
    IF i > Len(lines) THEN acc
    ELSE IF ~lines[i].ok THEN acc
    ELSE JournalLoopFrom(lines, i + 1,
           [store |-> IndexJournalEntry(acc.store, lines[i].entry),
            journalCount |-> acc.journalCount + 1,
            ts |-> acc.ts \cup {lines[i].entry.timestamp}])

JournalLoop(st, lines) ==
    JournalLoopFrom(lines, 1, [store |-> st, journalCount |-> 0, ts |-> {}])

\* delete every listed item
RECURSIVE ClearIndex(_)
ClearIndex(st) ==
    IF ListItems(st) = {} THEN st
    ELSE ClearIndex(DeleteItem(st, CHOOSE id \in ListItems(st) : TRUE))

\* readFile(journalPath): journal.jsonl exists once a line was appended
ReadJournal(journal) ==
    IF journal = <<>> THEN [ok |-> FALSE, lines |-> <<>>]
    ELSE [ok |-> TRUE, lines |-> journal]

\* mutant of JournalPhase: the log is read outside the try, so a missing
\* journal.jsonl makes rebuildIndex raise
JournalPhaseNoCatch(st, journal) ==
    LET r == ReadJournal(journal) IN
    IF ~r.ok
    THEN [store |-> st, journalCount |-> 0, ts |-> {}, raised |-> TRUE]
    ELSE JournalLoop(st, r.lines) @@ [raised |-> FALSE]

\* the journal phase of rebuildIndex: the read and the loop in one try,
\* whose catch swallows a missing file ("Journal may not exist")
JournalPhase(st, journal) ==
    LET r == ReadJournal(journal) IN
    IF ~r.ok
    THEN [store |-> st, journalCount |-> 0, ts |-> {}, raised |-> FALSE]
    ELSE JournalLoop(st, r.lines) @@ [raised |-> FALSE]

RebuildIndex(st, fs, journal) ==
    LET cleared == ClearIndex(st)
        nonJournalItems == NonJournalItems(fs)
        indexed == IndexItems(cleared, nonJournalItems)
        j == JournalPhase(indexed, journal)
    IN [store |-> j.store,
        itemCount |-> Len(nonJournalItems) + j.journalCount,
        ts |-> j.ts,
        raised |-> j.raised]

\* getIndexStats()
GetIndexStats(st) == [itemCount |-> Cardinality(ListItems(st))]

----------------------------------------------------------------------------
(* searchMemory *)

NoType == ""         \* options.type not given
NoSince == <<>>      \* options.since not given

RelatedFanout == 8       \* idx.queryItems(itemVector, 8)
RelatedCapFive == 5      \* mutant of RelatedCap: the cap of getEntryWithRelated
RelatedCap == 3          \* .slice(0, 3)
RelatedFloorMilli == 400 \* rel.score > 0.4
SnippetLen == 80         \* content.slice(0, 80)

Min(a, b) == IF a <= b THEN a ELSE b

\* content.slice(0, n) + (content.length > n ? "..." : "")
Snippet(content, n) ==
    [of |-> content, chars |-> Min(Len(content), n), ellipsis |-> Len(content) > n]

\* mutant of PassesFilter: the type option is not applied
PassesFilterSinceOnly(meta, type, since) ==
    ~(since # NoSince /\ meta.timestamp # NoTimestamp
        /\ StrLess(meta.timestamp, since))

\* mutant of PassesFilter: since also drops items without a timestamp
PassesFilterDropsUntimed(meta, type, since) ==
    /\ ~(type # NoType /\ meta.type # type)
    /\ ~(since # NoSince /\ (meta.timestamp = NoTimestamp
                               \/ StrLess(meta.timestamp, since)))

\* mutant of PassesFilter: the since comparison is turned round
PassesFilterSinceFlipped(meta, type, since) ==
    /\ ~(type # NoType /\ meta.type # type)
    /\ ~(since # NoSince /\ meta.timestamp # NoTimestamp
           /\ StrLess(since, meta.timestamp))

\* the filter callback: type, and since on items that carry a timestamp
PassesFilter(meta, type, since) ==
    /\ ~(type # NoType /\ meta.type # type)
    /\ ~(since # NoSince /\ meta.timestamp # NoTimestamp
           /\ StrLess(meta.timestamp, since))

\* mutant of RelatedOf: only the result's own id is excluded
RelatedOfOwnIdOnly(st, r, returnedIds) ==
    LET related == QueryItems(st, Embed(st[r.id].content), RelatedFanout)
        kept == SelectSeq(related, LAMBDA rel :
                    rel.id # r.id /\ rel.score > RelatedFloorMilli)
        top == SubSeq(kept, 1, Min(RelatedCap, Len(kept)))
    IN [i \in 1..Len(top) |->
          [id |-> top[i].id, type |-> st[top[i].id].type,
           source |-> st[top[i].id].source,
           snippet |-> Snippet(st[top[i].id].content, SnippetLen),
           score |-> top[i].score]]

\* the related list of one primary result r
RelatedOf(st, r, returnedIds) ==
    LET itemVector == Embed(st[r.id].content)
        related == QueryItems(st, itemVector, RelatedFanout)
        kept == SelectSeq(related, LAMBDA rel :
                    /\ rel.id # r.id
                    /\ rel.id \notin returnedIds
                    /\ rel.score > RelatedFloorMilli)
        top == SubSeq(kept, 1, Min(RelatedCap, Len(kept)))
    IN [i \in 1..Len(top) |->
          [id |-> top[i].id, type |-> st[top[i].id].type,
           source |-> st[top[i].id].source,
           snippet |-> Snippet(st[top[i].id].content, SnippetLen),
           score |-> top[i].score]]

\* mutant of TopResults: the kept results are returned last first
TopResultsReversed(filtered, limit) ==
    LET n == IF limit <= Len(filtered) THEN limit ELSE Len(filtered) IN
    [i \in 1..n |-> filtered[n + 1 - i]]

\* mutant of TopResults: one result fewer than asked for
TopResultsOneShort(filtered, limit) ==
    SubSeq(filtered, 1, IF limit - 1 <= Len(filtered) THEN limit - 1
                        ELSE Len(filtered))

\* mutant of TopResults: the over-fetched list is returned whole
TopResultsUncut(filtered, limit) == filtered

\* filtered.slice(0, limit)
TopResults(filtered, limit) == SubSeq(filtered, 1, Min(limit, Len(filtered)))

\* searchMemory past the check for an empty index
SearchIndexed(st, query, limit, type, since, includeRelated) ==
    LET queryVector == Embed(query)
        results == QueryItems(st, queryVector, limit * 2)
        filtered == IF type # NoType \/ since # NoSince
                    THEN SelectSeq(results, LAMBDA item :
                             PassesFilter(st[item.id], type, since))
                    ELSE results
        topResults == TopResults(filtered, limit)
        returnedIds == {topResults[i].id : i \in 1..Len(topResults)}
    IN [i \in 1..Len(topResults) |->
          [id |-> topResults[i].id,
           content |-> st[topResults[i].id].content,
           source |-> st[topResults[i].id].source,
           section |-> st[topResults[i].id].section,
           timestamp |-> st[topResults[i].id].timestamp,
           type |-> st[topResults[i].id].type,
           score |-> topResults[i].score,
           hasRelated |-> includeRelated,
           related |-> IF includeRelated
                       THEN RelatedOf(st, topResults[i], returnedIds)
                       ELSE <<>>]]

\* mutant of SearchMemory: an empty index is answered with an error
SearchMemoryRaisesOnEmpty(st, query, limit, type, since, includeRelated) ==
    IF ListItems(st) = {} THEN << [raised |-> TRUE] >>
    ELSE SearchIndexed(st, query, limit, type, since, includeRelated)

\* searchMemory(query, options): [] at once when the index has no items
SearchMemory(st, query, limit, type, since, includeRelated) ==
    IF ListItems(st) = {} THEN <<>>
    ELSE SearchIndexed(st, query, limit, type, since, includeRelated)

----------------------------------------------------------------------------
(* getEntryWithRelated *)

EntryFanout == 6         \* idx.queryItems(itemVector, 6)
EntryRelatedCap == 5     \* .slice(0, 5)
EntrySnippetLen == 100   \* relContent.slice(0, 100)

\* entry: null
NoEntry == [isNull |-> TRUE]

\* idx.getItem(id): undefined when no item has this id
GetItem(st, id) ==
    IF id \in DOMAIN st THEN [found |-> TRUE, metadata |-> st[id]]
    ELSE [found |-> FALSE, metadata |-> <<>>]

\* mutant of GetEntryWithRelated: no check of what getItem returned, so
\* reading the metadata of an unknown id raises
GetEntryNoNullCheck(st, id) ==
    [entry |-> NoEntry, related |-> <<>>, embedCalls |-> 0,
     raised |-> ~GetItem(st, id).found]

\* getEntryWithRelated(id): what it returns, the number of embed calls it
\* made, and whether it raised
GetEntryWithRelated(st, id) ==
    LET item == GetItem(st, id) IN
    IF ~item.found
    THEN [entry |-> NoEntry, related |-> <<>>, embedCalls |-> 0,
          raised |-> FALSE]
    ELSE LET meta == item.metadata
             itemVector == Embed(meta.content)
             similar == QueryItems(st, itemVector, EntryFanout)
             kept == SelectSeq(similar, LAMBDA rel :
                         rel.id # id /\ rel.score > RelatedFloorMilli)
             top == SubSeq(kept, 1, Min(EntryRelatedCap, Len(kept)))
         IN [entry |-> [isNull |-> FALSE, id |-> id, content |-> meta.content,
                        source |-> meta.source, section |-> meta.section,
                        timestamp |-> meta.timestamp, type |-> meta.type,
                        score |-> 1000],
             related |-> [i \in 1..Len(top) |->
                            [id |-> top[i].id, type |-> st[top[i].id].type,
                             snippet |-> Snippet(st[top[i].id].content,
                                                 EntrySnippetLen),
                             score |-> top[i].score]],
             embedCalls |-> 1,
             raised |-> FALSE]

----------------------------------------------------------------------------
(* Inputs of the model *)

\* "## Status\nActive.\n## Risks\nNone yet."
DocScenario == <<H2("Status"), T("Active."), H2("Risks"), T("None yet.")>>
\* a preamble and one section
DocShrunk == <<T("intro"), H2("Status"), T("Paused.")>>
\* a whitespace preamble, a section without body, a padded title
DocGap == <<T(" "), H2("Empty"), H2(" Risks"), T("None yet."), T("")>>
\* a level-1 title and a "## " heading
DocTopic == <<H1("Notes"), T("x"), H2("One"), T("y")>>

\* one section and no preamble
DocNoPreamble == <<H2("Status"), T("Active.")>>

Contents == {DocScenario, DocShrunk, DocGap, DocNoPreamble}

Absent == [exists |-> FALSE, content |-> <<>>]
Present(c) == [exists |-> TRUE, content |-> c]

\* timestamps "11", "12", ... of journal entries
JournalTimestamps == {<<1, 1>>, <<1, 2>>}

Entries == [timestamp : JournalTimestamps, topic : {"build"},
            content : {"shipped v1", "shipped v2"}]

\* a line of journal.jsonl: what JSON.parse gives, or a line it rejects
WellFormed(e) == [ok |-> TRUE, entry |-> e]
Malformed == [ok |-> FALSE,
              entry |-> [timestamp |-> NoTimestamp, topic |-> "", content |-> ""]]

NoResp == [op |-> "none", args |-> <<>>, again |-> FALSE,
           out |-> [itemCount |-> 0]]

\* no rebuildIndex call in flight
RbIdle == [pc |-> "idle", listed |-> 0, del |-> {}, items |-> <<>>,
           lines |-> <<>>, count |-> 0, written |-> <<>>, failed |-> FALSE,
           done |-> FALSE]

\* the ids reminders are added under
ReminderIds == {"a_b", "a/b", "c"}

\* getReminderPath(id): id.replace(/[^a-zA-Z0-9_-]/g, "_"), the name of
\* the reminder's file without .json
SafeId(id) == IF id = "a/b" THEN "a_b" ELSE id

\* a file of reminders/ that does not exist
NoReminder == [exists |-> FALSE, id |-> "", lastRun |-> FALSE]

\* the daemon after start: no reminder file, activeJobs empty, the
\* OpenCode server reachable.  dir is the reminders directory by file
\* name, mark the markReminderRun call in flight, removed the ids for which
\* removeReminder returned true and no reminder was added since.
NoSched == [file |-> FALSE, due |-> 0, job |-> "none", now |-> 0, up |-> TRUE,
            delivered |-> 0, fired |-> FALSE, synced |-> FALSE,
            dir |-> [f \in {SafeId(id) : id \in ReminderIds} |-> NoReminder],
            mark |-> [pc |-> "idle", id |-> "", rem |-> NoReminder],
            removed |-> {}]

Init ==
    /\ files = [p \in FsPaths |-> Absent]
    /\ topicsMd = [exists |-> FALSE, lines |-> <<>>]
    /\ log = <<>>
    /\ store = EmptyStore
    /\ index = NoIndex
    /\ resp = NoResp
    /\ jts = {}
    /\ rb = RbIdle
    /\ sched = NoSched

----------------------------------------------------------------------------
(* Incremental indexing *)

IndexFileAct(p, c, t) ==
    LET r == IndexFile(store, p, c, t) IN
    /\ store' = r.store
    /\ topicsMd' = IF t = "topic" THEN GenerateTopicsIndex(files) ELSE topicsMd
    /\ resp' = [op |-> "indexFile", args |-> <<p, c, t>>,
                again |-> (resp.op = "indexFile" /\ resp.args = <<p, c, t>>),
                out |-> [itemCount |-> r.itemCount,
                         \* history: the content of the call before, when
                         \* that was indexFile of this path with this type
                         previous |-> IF /\ resp.op = "indexFile"
                                         /\ resp.args[1] = p /\ resp.args[3] = t
                                      THEN resp.args[2] ELSE <<>>]]
    /\ index' = IF r.itemCount = 0 THEN index ELSE GetIndex(index)
    /\ UNCHANGED <<rb, sched, files, log, jts>>

IndexJournalEntryAct(e) ==
    /\ store' = IndexJournalEntry(store, e)
    /\ jts' = jts \cup {e.timestamp}
    /\ resp' = [op |-> "indexJournalEntry", args |-> <<e>>,
                again |-> (JournalId(e.timestamp) \in ListItems(store)),
                out |-> [itemCount |-> 0]]
    /\ index' = GetIndex(index)
    /\ UNCHANGED <<rb, sched, files, topicsMd, log>>

IndexPaths == {P_a, P_xa}
IndexTypes == {"project", "topic"}

Next ==
    \/ \E p \in IndexPaths, c \in Contents, t \in IndexTypes : IndexFileAct(p, c, t)
    \/ \E e \in Entries : IndexJournalEntryAct(e)

Spec == Init /\ [][Next]_vars

----------------------------------------------------------------------------
(* The source tree, the journal log, the file.edited hook and rebuildIndex *)

EnvResp == [NoResp EXCEPT !.op = "environment"]

\* the contents a file of the tree is written with
FileContents(p) ==
    IF p = P_a THEN {DocScenario, DocShrunk}
    ELSE IF p = P_xa THEN {DocScenario}
    ELSE {DocTopic}

\* a source file is written or removed (by the agent or by hand)
WriteFileAct(p, c) ==
    /\ files[p] # Present(c)
    /\ files' = [files EXCEPT ![p] = Present(c)]
    /\ resp' = EnvResp
    /\ UNCHANGED <<rb, sched, topicsMd, log, store, index, jts>>

DeleteFileAct(p) ==
    /\ files[p].exists
    /\ files' = [files EXCEPT ![p] = Absent]
    /\ resp' = EnvResp
    /\ UNCHANGED <<rb, sched, topicsMd, log, store, index, jts>>

AppendFileTruncating(journal, line) == <<line>>

\* appendFile(JOURNAL_PATH, line)
AppendFile(journal, line) == Append(journal, line)

\* logJournal(entry): one line appended, stamped with the current time
LogJournalAct(e) ==
    /\ Len(log) < MaxLog
    /\ log' = AppendFile(log, WellFormed(e))
    /\ resp' = EnvResp
    /\ UNCHANGED <<rb, sched, files, topicsMd, store, index, jts>>

\* a line that JSON.parse rejects gets into journal.jsonl
AppendMalformedAct ==
    /\ Len(log) < MaxLog
    /\ log' = AppendFile(log, Malformed)
    /\ resp' = EnvResp
    /\ UNCHANGED <<rb, sched, files, topicsMd, store, index, jts>>

\* getMemoryType(filePath) of the hooks plugin; "" is null
GetMemoryType(p) ==
    IF p[1] # "state" THEN ""
    ELSE IF ~EndsWithMd(p[Len(p)]) THEN ""
    ELSE IF Len(p) >= 3 /\ p[2] = "people" THEN "person"
    ELSE IF Len(p) >= 3 /\ p[2] = "projects" THEN "project"
    ELSE IF Len(p) >= 3 /\ p[2] = "meetings" THEN "meeting"
    ELSE "state"

\* the file.edited hook on a file of the tree, with its content
FileEditedAct(p) ==
    /\ files[p].exists
    /\ GetMemoryType(p) # ""
    /\ TrimStr([i \in 1..Len(files[p].content) |->
                  RenderLine(files[p].content[i])]) # ""
    /\ IndexFileAct(p, files[p].content, GetMemoryType(p))

\* rebuildIndex(): getIndex() first, then the store is listed, cleared and
\* written; listing an index that was not created fails
RebuildIndexAct ==
    LET idx == GetIndex(index)
        r == IF idx.created THEN RebuildIndex(store, files, log)
             ELSE [store |-> store, itemCount |-> 0, ts |-> jts, raised |-> TRUE]
    IN
    /\ index' = idx
    /\ store' = r.store
    /\ topicsMd' = GenerateTopicsIndex(files)
    /\ jts' = r.ts
    /\ resp' = [op |-> "rebuildIndex", args |-> <<>>, again |-> FALSE,
                out |-> [itemCount |-> r.itemCount, raised |-> r.raised,
                         created |-> ~index.created]]
    /\ UNCHANGED <<rb, sched, files, log>>

GetIndexStatsAct ==
    /\ resp' = [op |-> "getIndexStats", args |-> <<>>, again |-> FALSE,
                out |-> GetIndexStats(store)]
    /\ index' = GetIndex(index)
    /\ UNCHANGED <<rb, sched, files, topicsMd, log, store, jts>>

LogEntries == {e \in Entries : e.content = "shipped v1" /\ e.timestamp = <<1, 1>>}

RebuildPaths == {P_a, P_xa, P_today, P_t}

NextRebuild ==
    \/ \E p \in RebuildPaths : \E c \in FileContents(p) : WriteFileAct(p, c)
    \/ \E p \in RebuildPaths : DeleteFileAct(p)
    \/ \E e \in LogEntries : LogJournalAct(e)
    \/ AppendMalformedAct
    \/ \E p \in RebuildPaths : FileEditedAct(p)
    \/ RebuildIndexAct
    \/ GetIndexStatsAct

SpecRebuild == Init /\ [][NextRebuild]_vars

----------------------------------------------------------------------------
(* indexItem on arbitrary MemoryItems, and searchMemory *)

RECURSIVE Pad(_)
Pad(n) == IF n = 0 THEN "" ELSE "." \o Pad(n - 1)

\* The MemoryItems indexItem is called with: a mix of types, journal
\* items with timestamps "11", "12", "21", "22", and contents whose
\* embeddings lie at these multiples of 45 degrees.
ItemTypes == <<"journal", "project", "journal", "topic">>
ItemAngles == <<0, 0, 1, 1, 0, 7, 2, 4, 1, 3>>

SearchItem(i) ==
    LET type == ItemTypes[((i - 1) % 4) + 1]
        angle == ItemAngles[((i - 1) % 10) + 1]
    IN MemoryItem("item-" \o ToString(i), type,
                  "note " \o Pad(((angle + 3) % 8) + 8 * (i % 2)),
                  IF type = "journal" THEN "journal.jsonl"
                  ELSE "state/notes/" \o ToString(i) \o ".md",
                  NoSection,
                  IF type = "journal"
                  THEN <<1 + ((i \div 4) % 2), 1 + ((i \div 2) % 2)>>
                  ELSE NoTimestamp)

SearchItems == {SearchItem(i) : i \in 1..NumItems}

Queries == {"shipped!", "status"}
TypeOptions == {NoType, "journal"}
SinceOptions == {NoSince, <<1, 2>>, <<2>>}

IndexItemAct(item) ==
    /\ store' = IndexItem(store, item)
    /\ resp' = [op |-> "indexItem", args |-> <<item.id>>, again |-> FALSE,
                out |-> [itemCount |-> 0]]
    /\ index' = GetIndex(index)
    /\ UNCHANGED <<rb, sched, files, topicsMd, log, jts>>

\* searchMemory changes nothing; the call is recorded with its options,
\* and what it returned is SearchMemory of the store and these options
\* (see Response).
SearchMemoryAct(query, limit, type, since, includeRelated) ==
    /\ resp' = [op |-> "searchMemory",
                args |-> <<query, limit, type, since, includeRelated>>,
                again |-> FALSE, out |-> [itemCount |-> 0]]
    /\ index' = GetIndex(index)
    /\ UNCHANGED <<rb, sched, files, topicsMd, log, store, jts>>

\* the ids getEntryWithRelated is called with; "item-0" is never indexed
EntryIds == {"item-0", "item-1", "item-5"}

GetEntryWithRelatedAct(id) ==
    /\ resp' = [op |-> "getEntryWithRelated", args |-> <<id>>,
                again |-> FALSE, out |-> GetEntryWithRelated(store, id)]
    /\ index' = GetIndex(index)
    /\ UNCHANGED <<rb, sched, files, topicsMd, log, store, jts>>

\* what the recorded searchMemory call returned
Response ==
    SearchMemory(store, resp.args[1], resp.args[2], resp.args[3],
                 resp.args[4], resp.args[5])

NextSearch ==
    \/ \E item \in SearchItems : IndexItemAct(item)
    \/ \E query \in Queries, limit \in 1..MaxLimit, type \in TypeOptions,
          since \in SinceOptions, includeRelated \in BOOLEAN :
          SearchMemoryAct(query, limit, type, since, includeRelated)
    \/ \E id \in EntryIds : GetEntryWithRelatedAct(id)

SpecSearch == Init /\ [][NextSearch]_vars

----------------------------------------------------------------------------
(* Incremental operations between rebuilds: the index_file tool on a       *)
(* project file and a topic file, indexJournalEntry, indexItem and         *)
(* indexItems called directly, and rebuildIndex, while the files change    *)

IncrPaths == {P_a, P_t}
IncrType(p) == IF p = P_t THEN "topic" ELSE "project"
IncrContents(p) ==
    IF p = P_t THEN {DocTopic, DocScenario} ELSE {DocScenario, DocShrunk}

IndexItemsActPerItem(items, fail) ==
    /\ fail => Len(items) > 0
    /\ store' = IF fail THEN IndexItems(store, SubSeq(items, 1, Len(items) - 1))
                ELSE IndexItems(store, items)
    /\ resp' = [op |-> "indexItems",
                args |-> [i \in 1..Len(items) |-> items[i].id],
                again |-> FALSE,
                out |-> [itemCount |-> 0, raised |-> fail,
                         embedCalls |-> Len(items)]]
    /\ index' = IF Len(items) = 0 THEN index ELSE GetIndex(index)
    /\ UNCHANGED <<rb, sched, files, topicsMd, log, jts>>

\* indexItems(items): nothing at all for an empty batch; else getIndex(),
\* one embedBatch call, which may fail (fail), then the upserts
IndexItemsAct(items, fail) ==
    /\ fail => Len(items) > 0
    /\ store' = IF fail THEN store ELSE IndexItems(store, items)
    /\ resp' = [op |-> "indexItems",
                args |-> [i \in 1..Len(items) |-> items[i].id],
                again |-> FALSE,
                out |-> [itemCount |-> 0, raised |-> fail,
                         embedCalls |-> IF Len(items) = 0 THEN 0 ELSE 1]]
    /\ index' = IF Len(items) = 0 THEN index ELSE GetIndex(index)
    /\ UNCHANGED <<rb, sched, files, topicsMd, log, jts>>

NextIncr ==
    \/ \E p \in IncrPaths : \E c \in IncrContents(p) : WriteFileAct(p, c)
    \/ \E p \in IncrPaths : DeleteFileAct(p)
    \/ \E p \in IncrPaths : \E c \in IncrContents(p) :
          IndexFileAct(p, c, IncrType(p))
    \/ \E e \in LogEntries : IndexJournalEntryAct(e)
    \/ IndexItemAct(SearchItem(2))
    \/ \E items \in {<<>>, <<SearchItem(1), SearchItem(2)>>}, fail \in BOOLEAN :
          IndexItemsAct(items, fail)
    \/ RebuildIndexAct

SpecIncr == Init /\ [][NextIncr]_vars

----------------------------------------------------------------------------
(* The two paths to the index side by side: files written to the tree are  *)
(* indexed with indexFile under the type of their directory and by         *)
(* rebuildIndex; journal entries are logged, indexed and rebuilt           *)

\* a preamble, a section, and a last "## " line with nothing after it
DocTrailing == <<T("intro"), H2("Status"), T("Active."), H2("")>>

EquivPaths == {P_a, P_today, P_t}

EquivContents(p) ==
    IF p = P_a THEN {DocGap, DocTrailing}
    ELSE IF p = P_today THEN {DocShrunk}
    ELSE {DocTopic}

\* the type rebuildIndex parses a file of the tree with
RebuildType(p) ==
    IF Len(p) = 2 THEN "state"
    ELSE CASE p[2] = "projects" -> "project"
           [] p[2] = "people" -> "person"
           [] p[2] = "meetings" -> "meeting"
           [] p[2] = "topics" -> "topic"

NextEquiv ==
    \/ \E p \in EquivPaths : \E c \in EquivContents(p) : WriteFileAct(p, c)
    \/ \E p \in EquivPaths :
          files[p].exists /\ IndexFileAct(p, files[p].content, RebuildType(p))
    \/ \E e \in LogEntries : LogJournalAct(e)
    \/ \E e \in LogEntries : IndexJournalEntryAct(e)
    \/ RebuildIndexAct

SpecEquiv == Init /\ [][NextEquiv]_vars

----------------------------------------------------------------------------
(* The topics directory and its listing: topic files are written and       *)
(* removed, indexed with indexFile as topics, and the index is rebuilt     *)

DocAlpha == <<H1("Alpha"), T("x")>>
\* a "# " line without text, a blank line and a line of text
DocBareHash == <<H1(""), T(""), T("x")>>

TopicPaths == {P_t, P_u}

TopicContents(p) ==
    IF p = P_t THEN {DocTopic, DocNoPreamble}
    ELSE {DocAlpha, DocBareHash, DocNoPreamble}

NextTopics ==
    \/ \E p \in TopicPaths : \E c \in TopicContents(p) : WriteFileAct(p, c)
    \/ \E p \in TopicPaths : DeleteFileAct(p)
    \/ \E p \in TopicPaths : \E c \in TopicContents(p) : IndexFileAct(p, c, "topic")
    \/ RebuildIndexAct

SpecTopics == Init /\ [][NextTopics]_vars

----------------------------------------------------------------------------
(* The journal: the log_journal tool, logJournal, getRecentJournalEntries, *)
(* and the operations of the index that read or index the journal          *)

\* getRecentJournalEntries(count): the last count lines, parsed; [] when
\* the log cannot be read or one of these lines does not parse
GetRecentJournalEntries(journal, count) ==
    LET r == ReadJournal(journal)
        n == Len(r.lines)
        last == SubSeq(r.lines, IF n > count THEN n - count + 1 ELSE 1, n)
    IN IF ~r.ok \/ (\E i \in 1..Len(last) : ~last[i].ok) THEN <<>>
       ELSE [i \in 1..Len(last) |-> last[i].entry]

GetRecentJournalEntriesAct(count) ==
    /\ resp' = [op |-> "getRecentJournalEntries", args |-> <<count>>,
                again |-> FALSE,
                out |-> [itemCount |-> 0,
                         entries |-> GetRecentJournalEntries(log, count)]]
    /\ UNCHANGED <<rb, sched, files, topicsMd, log, store, index, jts>>

\* the log_journal tool: logJournal stamps the line with new Date() when
\* it runs (e.timestamp); the handler then reads the clock again (now) for
\* the entry it gives to indexJournalEntry
LogJournalToolAct(e, now) ==
    /\ Len(log) < MaxLog
    /\ ~StrLess(now, e.timestamp)
    /\ log' = AppendFile(log, WellFormed(e))
    /\ store' = IndexJournalEntry(store, [e EXCEPT !.timestamp = now])
    /\ jts' = jts \cup {now}
    /\ index' = GetIndex(index)
    /\ resp' = [op |-> "log_journal", args |-> <<e>>, again |-> FALSE,
                out |-> [itemCount |-> 0, indexed |-> now]]
    /\ UNCHANGED <<rb, sched, files, topicsMd>>

NextJournal ==
    \/ \E e \in Entries : LogJournalAct(e)
    \/ \E e \in Entries, now \in JournalTimestamps : LogJournalToolAct(e, now)
    \/ AppendMalformedAct
    \/ \E e \in LogEntries : IndexJournalEntryAct(e)
    \/ RebuildIndexAct
    \/ \E type \in TypeOptions : SearchMemoryAct("shipped!", 1, type, NoSince, FALSE)
    \/ \E count \in 1..MaxLog : GetRecentJournalEntriesAct(count)

SpecJournal == Init /\ [][NextJournal]_vars

----------------------------------------------------------------------------
(* rebuildIndex step by step: every await of the call is a point where     *)
(* another call may run, and where the embedding or the store may fail     *)

\* what the caller of a rebuildIndex that threw gets; phase is where it
\* threw, listed the number of entries the call had found in the store
RbRaised(phase) ==
    [op |-> "rebuildIndex", args |-> <<>>, again |-> FALSE,
     out |-> [itemCount |-> 0, raised |-> TRUE, faulted |-> TRUE,
              phase |-> phase, listed |-> rb.listed]]

WrittenItem(item) == [id |-> item.id, type |-> item.type, source |-> item.source]

\* getIndex() and listItems(): the ids to delete
RbBegin ==
    /\ rb.pc = "idle"
    /\ index' = GetIndex(index)
    /\ rb' = [RbIdle EXCEPT !.pc = "clear", !.del = ListItems(store),
                            !.listed = Cardinality(ListItems(store))]
    /\ resp' = [op |-> "rebuildIndex.begin", args |-> <<>>, again |-> FALSE,
                out |-> [itemCount |-> 0]]
    /\ UNCHANGED <<files, topicsMd, log, store, jts, sched>>

RbDeleteKeeping(fail) ==
    /\ rb.pc = "clear" /\ rb.del # {}
    /\ rb' = [rb EXCEPT !.del = @ \ {CHOOSE id \in rb.del : TRUE}]
    /\ UNCHANGED <<files, topicsMd, log, store, index, resp, jts, sched>>

\* await idx.deleteItem(item.id), one listed item
RbDelete(fail) ==
    /\ rb.pc = "clear" /\ rb.del # {}
    /\ IF fail
       THEN rb' = RbIdle /\ resp' = RbRaised("deleteItem") /\ store' = store
       ELSE LET id == CHOOSE id \in rb.del : TRUE IN
            /\ store' = DeleteItem(store, id)
            /\ rb' = [rb EXCEPT !.del = @ \ {id}]
            /\ resp' = resp
    /\ UNCHANGED <<files, topicsMd, log, index, jts, sched>>

\* the source files are read and parsed; indexItems embeds the contents
\* in one batch, unless there are none
RbCollect(fail) ==
    LET items == NonJournalItems(files) IN
    /\ rb.pc = "clear" /\ rb.del = {}
    /\ fail => Len(items) > 0
    /\ IF fail
       THEN rb' = RbIdle /\ resp' = RbRaised("embedBatch")
       ELSE /\ rb' = [rb EXCEPT !.pc = "insert", !.items = items,
                                !.count = Len(items)]
            /\ resp' = resp
    /\ jts' = {}
    /\ UNCHANGED <<files, topicsMd, log, store, index, sched>>

RbUpsertSkipping(fail) ==
    /\ rb.pc = "insert" /\ rb.items # <<>>
    /\ rb' = [rb EXCEPT !.items = Tail(@)]
    /\ UNCHANGED <<files, topicsMd, log, store, index, jts, sched, resp>>

\* await idx.upsertItem(...) of indexItems, one item
RbUpsert(fail) ==
    /\ rb.pc = "insert" /\ rb.items # <<>>
    /\ IF fail
       THEN rb' = RbIdle /\ resp' = RbRaised("upsertItem") /\ store' = store
       ELSE LET item == Head(rb.items) IN
            /\ store' = UpsertItem(store, item.id,
                                   Metadata(item, Embed(item.content)))
            /\ rb' = [rb EXCEPT !.items = Tail(@),
                                !.written = Append(@, WrittenItem(item))]
            /\ resp' = resp
    /\ UNCHANGED <<files, topicsMd, log, index, jts, sched>>

\* generateTopicsIndex(), then the journal is read inside the try
RbTopics ==
    /\ rb.pc = "insert" /\ rb.items = <<>>
    /\ topicsMd' = GenerateTopicsIndex(files)
    /\ rb' = [rb EXCEPT !.pc = "journal", !.lines = ReadJournal(log).lines]
    /\ UNCHANGED <<files, log, store, index, resp, jts, sched>>

\* one pass of the journal loop: JSON.parse(line), await
\* indexJournalEntry(entry); what either throws lands in the catch around
\* the loop, and the call goes on to its return
RbJournal(fail) ==
    /\ rb.pc = "journal" /\ rb.lines # <<>>
    /\ fail => Head(rb.lines).ok
    /\ IF ~Head(rb.lines).ok
       THEN rb' = [rb EXCEPT !.lines = <<>>] /\ store' = store /\ jts' = jts
       ELSE IF fail
       THEN /\ rb' = [rb EXCEPT !.lines = <<>>, !.failed = TRUE]
            /\ store' = store /\ jts' = jts
       ELSE LET entry == Head(rb.lines).entry IN
            /\ store' = IndexJournalEntry(store, entry)
            /\ jts' = jts \cup {entry.timestamp}
            /\ rb' = [rb EXCEPT !.lines = Tail(@), !.count = @ + 1,
                                !.written = Append(@, WrittenItem(JournalItem(entry)))]
    /\ UNCHANGED <<files, topicsMd, log, index, resp, sched>>

\* return { itemCount: totalItems }
RbReturn ==
    /\ rb.pc = "journal" /\ rb.lines = <<>>
    /\ resp' = [op |-> "rebuildIndex", args |-> <<>>, again |-> FALSE,
                out |-> [itemCount |-> rb.count, raised |-> FALSE,
                         faulted |-> rb.failed]]
    /\ rb' = [RbIdle EXCEPT !.done = ~rb.failed]
    /\ UNCHANGED <<files, topicsMd, log, store, index, jts, sched>>

ConcPaths == {P_today, P_a, P_t}

ConcContents(p) ==
    IF p = P_today THEN {DocShrunk}
    ELSE IF p = P_a THEN {DocNoPreamble}
    ELSE {DocTopic}

\* the entry logJournal appends as line n + 1: the clock has moved on
\* after the first line
ConcEntry(n) ==
    [timestamp |-> IF n = 0 THEN <<1, 1>> ELSE <<1, 2>>,
     topic |-> "build", content |-> "shipped v1"]

\* The sources are written before the index is first used; then
\* rebuildIndex runs, one call at a time, and getIndexStats at any point.
NextConc ==
    \/ /\ ~index.handle
       /\ \/ \E p \in ConcPaths : \E c \in ConcContents(p) : WriteFileAct(p, c)
          \/ LogJournalAct(ConcEntry(Len(log)))
          \/ AppendMalformedAct
    \/ RbBegin
    \/ \E fail \in BOOLEAN : RbDelete(fail)
    \/ \E fail \in BOOLEAN : RbCollect(fail)
    \/ \E fail \in BOOLEAN : RbUpsert(fail)
    \/ RbTopics
    \/ \E fail \in BOOLEAN : RbJournal(fail)
    \/ RbReturn
    \/ GetIndexStatsAct

SpecConc == Init /\ [][NextConc]_vars

----------------------------------------------------------------------------
(* Edits beside a rebuild: a file is written and the file.edited hook      *)
(* indexes it, in one step, at any point of a rebuildIndex in flight       *)

RacePaths == {P_a, P_today}

\* the file is saved with content c and the hook runs indexFile on it
EditAndIndexAct(p, c) ==
    LET t == GetMemoryType(p)
        r == IndexFile(store, p, c, t)
    IN /\ files[p] # Present(c)
       /\ files' = [files EXCEPT ![p] = Present(c)]
       /\ store' = r.store
       /\ index' = IF r.itemCount = 0 THEN index ELSE GetIndex(index)
       /\ resp' = [op |-> "indexFile", args |-> <<p, c, t>>, again |-> FALSE,
                   out |-> [itemCount |-> r.itemCount, previous |-> <<>>]]
       /\ UNCHANGED <<topicsMd, log, jts, rb, sched>>

NextRace ==
    \/ \E p \in RacePaths : \E c \in {DocNoPreamble, DocShrunk} : EditAndIndexAct(p, c)
    \/ rb.pc = "idle" /\ LogJournalAct(ConcEntry(Len(log)))
    \/ RbBegin
    \/ RbDelete(FALSE)
    \/ RbCollect(FALSE)
    \/ RbUpsert(FALSE)
    \/ RbTopics
    \/ RbJournal(FALSE)
    \/ RbReturn

SpecRace == Init /\ [][NextRace]_vars

----------------------------------------------------------------------------
(* The scheduler daemon and one one-shot reminder.  sched.job is the       *)
(* entry of activeJobs under the reminder's id: "none", "armed" (a job     *)
(* that will fire at sched.due), or "stale" (a job that has fired or was   *)
(* cancelled and is still in the map).                                     *)

\* scheduleReminder(reminder) for a one-shot: the job under its id is
\* cancelled; a new one is set unless the date is not after now
ScheduleReminder(sc) ==
    IF sc.due <= sc.now
    THEN [sc EXCEPT !.job = IF @ = "armed" THEN "stale" ELSE @]
    ELSE [sc EXCEPT !.job = "armed"]

\* syncAllReminders(): jobs of reminders whose file is gone are dropped,
\* every reminder on disk is scheduled again
SyncAllReminders(sc) ==
    IF sc.file THEN ScheduleReminder(sc) ELSE [sc EXCEPT !.job = "none"]

\* the job's date has come and it has not fired yet
JobDue == sched.job = "armed" /\ sched.now >= sched.due

\* the schedule_once tool: addOnceReminder saves the reminder file
ScheduleOnceAct(due) ==
    /\ ~sched.file /\ sched.due = 0
    /\ due > sched.now
    /\ sched' = [sched EXCEPT !.file = TRUE, !.due = due]
    /\ UNCHANGED <<files, topicsMd, log, store, index, resp, jts, rb>>

\* the poll every minute, and the watcher's callback after a change of the
\* reminder file
SyncAllRemindersAct ==
    /\ ~JobDue
    /\ sched' = [SyncAllReminders(sched) EXCEPT !.synced = sched.fired]
    /\ UNCHANGED <<files, topicsMd, log, store, index, resp, jts, rb>>

\* the job fires: triggerOpencode(reminder).  It returns at once when the
\* server is not running; else it posts the payload, and when the answer
\* is ok (ok) it marks the reminder run, unlinks its file and drops the job
TriggerOpencodeAct(ok) ==
    /\ JobDue
    /\ ok => sched.up
    /\ sched' = IF sched.up /\ ok
                THEN [sched EXCEPT !.delivered = @ + 1, !.file = FALSE,
                                   !.job = "none", !.fired = TRUE]
                ELSE [sched EXCEPT !.job = "stale", !.fired = TRUE]
    /\ UNCHANGED <<files, topicsMd, log, store, index, resp, jts, rb>>

\* the OpenCode server goes down or comes back
ServerAct ==
    /\ sched' = [sched EXCEPT !.up = ~@]
    /\ UNCHANGED <<files, topicsMd, log, store, index, resp, jts, rb>>

\* time passes; a job whose date has come fires before it passes further
TickAct ==
    /\ sched.now < MaxTime /\ ~JobDue
    /\ sched' = [sched EXCEPT !.now = @ + 1]
    /\ UNCHANGED <<files, topicsMd, log, store, index, resp, jts, rb>>

NextReminder ==
    \/ \E due \in 1..MaxTime : ScheduleOnceAct(due)
    \/ SyncAllRemindersAct
    \/ \E ok \in BOOLEAN : TriggerOpencodeAct(ok)
    \/ ServerAct
    \/ TickAct

SpecReminder == Init /\ [][NextReminder]_vars

----------------------------------------------------------------------------
(* The reminder files: addCronReminder / addOnceReminder, removeReminder,  *)
(* listReminders, and markReminderRun in its two awaited steps             *)

StoreResp(op, id, result) ==
    [op |-> op, args |-> <<id>>, again |-> FALSE,
     out |-> [itemCount |-> 0, result |-> result]]

\* listReminders(): the reminders parsed from the files of the directory
ListReminders(dir) == {dir[f] : f \in {g \in DOMAIN dir : dir[g].exists}}

\* addCronReminder / addOnceReminder: saveReminder writes the file
AddReminderAct(id) ==
    /\ sched' = [sched EXCEPT
                   !.dir[SafeId(id)] = [exists |-> TRUE, id |-> id, lastRun |-> FALSE],
                   !.removed = @ \ {id}]
    /\ resp' = StoreResp("addReminder", id, TRUE)
    /\ UNCHANGED <<files, topicsMd, log, store, index, jts, rb>>

\* removeReminder(id): false when the file does not exist, else unlink
RemoveReminderAct(id) ==
    /\ sched' = IF sched.dir[SafeId(id)].exists
                THEN [sched EXCEPT !.dir[SafeId(id)] = NoReminder,
                                   !.removed = @ \cup {id}]
                ELSE sched
    /\ resp' = StoreResp("removeReminder", id, sched.dir[SafeId(id)].exists)
    /\ UNCHANGED <<files, topicsMd, log, store, index, jts, rb>>

\* markReminderRun(id), first await: loadReminder; null ends the call
MarkLoadAct(id) ==
    /\ sched.mark.pc = "idle"
    /\ sched' = IF sched.dir[SafeId(id)].exists
                THEN [sched EXCEPT !.mark = [pc |-> "loaded", id |-> id,
                                             rem |-> sched.dir[SafeId(id)]]]
                ELSE sched
    /\ resp' = StoreResp("markReminderRun.load", id, sched.dir[SafeId(id)].exists)
    /\ UNCHANGED <<files, topicsMd, log, store, index, jts, rb>>

\* markReminderRun(id), second await: the loaded reminder is written back
\* with lastRun set
MarkSaveAct ==
    /\ sched.mark.pc = "loaded"
    /\ sched' = [sched EXCEPT
                   !.dir[SafeId(sched.mark.id)] = [sched.mark.rem EXCEPT !.lastRun = TRUE],
                   !.mark = NoSched.mark]
    /\ resp' = StoreResp("markReminderRun", sched.mark.id, TRUE)
    /\ UNCHANGED <<files, topicsMd, log, store, index, jts, rb>>

NextStore ==
    \/ \E id \in ReminderIds : AddReminderAct(id)
    \/ \E id \in ReminderIds : RemoveReminderAct(id)
    \/ \E id \in ReminderIds : MarkLoadAct(id)
    \/ MarkSaveAct

SpecStore == Init /\ [][NextStore]_vars

----------------------------------------------------------------------------
(* getIndex step by step, for operations that start beside each other      *)

\* if (index) return index; else await mkdir(INDEX_PATH, ...)
GiEnter(c) ==
    /\ index.pcs[c] = "idle"
    /\ index' = [index EXCEPT !.pcs[c] = IF index.handle THEN "got" ELSE "mkdir"]
    /\ UNCHANGED <<files, topicsMd, log, store, resp, jts, rb, sched>>

\* index = new LocalIndex(INDEX_PATH); await index.isIndexCreated()
GiNewIndex(c) ==
    /\ index.pcs[c] = "mkdir"
    /\ index' = [index EXCEPT !.handle = TRUE, !.handles = @ + 1,
                              !.pcs[c] = "created?"]
    /\ UNCHANGED <<files, topicsMd, log, store, resp, jts, rb, sched>>

\* isIndexCreated() answers: return index, or await index.createIndex()
GiIsCreated(c) ==
    /\ index.pcs[c] = "created?"
    /\ index' = [index EXCEPT !.pcs[c] = IF index.created THEN "got" ELSE "create"]
    /\ UNCHANGED <<files, topicsMd, log, store, resp, jts, rb, sched>>

\* createIndex() is done: return index
GiCreateIndex(c) ==
    /\ index.pcs[c] = "create"
    /\ index' = [index EXCEPT !.created = TRUE, !.creates = @ + 1,
                              !.pcs[c] = "got"]
    /\ UNCHANGED <<files, topicsMd, log, store, resp, jts, rb, sched>>

\* the caller has its handle and goes on to its first store call, here
\* listItems; on an index that is not created the store call fails
GiUse(c) ==
    /\ index.pcs[c] = "got"
    /\ index' = [index EXCEPT !.pcs[c] = "idle"]
    /\ resp' = [op |-> c, args |-> <<>>, again |-> FALSE,
                out |-> [itemCount |-> Cardinality(ListItems(store)),
                         raised |-> ~index.created]]
    /\ UNCHANGED <<files, topicsMd, log, store, jts, rb, sched>>

NextInit ==
    \/ \E c \in Callers : GiEnter(c)
    \/ \E c \in Callers : GiNewIndex(c)
    \/ \E c \in Callers : GiIsCreated(c)
    \/ \E c \in Callers : GiCreateIndex(c)
    \/ \E c \in Callers : GiUse(c)

SpecInit == Init /\ [][NextInit]_vars

----------------------------------------------------------------------------
(* Claims on incremental indexing, under Spec *)

\* C1: when indexFile(path, content, type) is called a second time in a row
\* with the same arguments, the store after the second call is the store
\* after the first: same ids, same content under every id, no entry more.
C1_IdempotentReindex ==
    [][(resp'.op = "indexFile" /\ resp'.again) => store' = store]_vars

\* a repeated indexFile call that wrote at least two items
C1_Witness ==
    resp.op = "indexFile" /\ resp.again /\ resp.out.itemCount >= 2

JournalIdsInStore == {id \in ListItems(store) : store[id].type = "journal"}

\* C5: the store holds exactly one journal entry per distinct timestamp
\* given to indexJournalEntry, under the id journal-<timestamp>; a call
\* with a timestamp seen before overwrites (the entry then holds the
\* content of the latest call).
C5_JournalOnePerTimestamp ==
    /\ JournalIdsInStore = {JournalId(ts) : ts \in jts}
    /\ Cardinality(JournalIdsInStore) = Cardinality(jts)
    /\ resp.op = "indexJournalEntry" =>
          LET e == resp.args[1] IN
          /\ JournalId(e.timestamp) \in ListItems(store)
          /\ store[JournalId(e.timestamp)].content
                = "[" \o e.topic \o "] " \o e.content
          /\ store[JournalId(e.timestamp)].timestamp = e.timestamp

\* a call that overwrote an entry of the same timestamp while an entry of
\* another timestamp is in the store
C5_Witness ==
    resp.op = "indexJournalEntry" /\ resp.again /\ Cardinality(jts) >= 2

----------------------------------------------------------------------------
(* Claims on rebuildIndex, under SpecRebuild *)

WellFormedLines == {i \in 1..Len(log) : log[i].ok}

\* the ids the id scheme gives the current sources
DerivedIds ==
    {NonJournalItems(files)[i].id : i \in 1..Len(NonJournalItems(files))}
    \cup {JournalId(log[i].entry.timestamp) : i \in WellFormedLines}

\* the sum of the chunk counts of the current source files plus the number
\* of well-formed journal lines
ExpectedItemCount == Len(NonJournalItems(files)) + Cardinality(WellFormedLines)

\* C2: after rebuildIndex the ids of the store are exactly the ids derived
\* from the current source files and the journal log.
C2_RebuildIsPureCache ==
    resp.op = "rebuildIndex" => ListItems(store) = DerivedIds

\* C3: after rebuildIndex the itemCount it returned and the itemCount of
\* getIndexStats both equal the sum of chunk counts plus the number of
\* well-formed journal lines.
C3_RebuildCompleteness ==
    resp.op = "rebuildIndex" =>
        /\ resp.out.itemCount = ExpectedItemCount
        /\ GetIndexStats(store).itemCount = ExpectedItemCount

\* C4: rebuildIndex indexes every well-formed journal line, also one that
\* follows a malformed line, and counts every well-formed line.
C4_MalformedLineSkipped ==
    resp.op = "rebuildIndex" =>
        /\ \A i \in WellFormedLines :
              JournalId(log[i].entry.timestamp) \in ListItems(store)
        /\ resp.out.itemCount
              = Len(NonJournalItems(files)) + Cardinality(WellFormedLines)

\* C15: when the index directory does not exist yet, rebuildIndex creates
\* the directory and the index before it reads or writes the store, does
\* not raise, and returns the itemCount of the source content (the sum of
\* chunk counts plus the number of well-formed journal lines).
C15_FirstRebuildCreatesIndex ==
    (resp.op = "rebuildIndex" /\ resp.out.created) =>
        /\ index.handle /\ index.created
        /\ ~resp.out.raised
        /\ resp.out.itemCount = ExpectedItemCount

----------------------------------------------------------------------------
(* Claims on searchMemory, under SpecSearch *)

Searched == resp.op = "searchMemory"
ArgQuery == resp.args[1]
ArgLimit == resp.args[2]
ArgType == resp.args[3]
ArgSince == resp.args[4]
ArgIncludeRelated == resp.args[5]

\* the ids of the 2 x limit nearest neighbours of the query
Fetched ==
    LET r == QueryItems(store, Embed(ArgQuery), 2 * ArgLimit) IN
    {r[i].id : i \in 1..Len(r)}

\* C6: searchMemory(q, {limit: n}) returns at most n primary results.
C6_SearchRespectsLimit ==
    Searched => Len(Response) <= ArgLimit

\* a search on an index of more than 2 x limit items whose over-fetched
\* list had more than limit items after filtering
C6_Witness ==
    /\ Searched
    /\ Cardinality(ListItems(store)) > 2 * ArgLimit
    /\ Len(Response) = ArgLimit
    /\ Cardinality({id \in Fetched :
           PassesFilter(store[id], ArgType, ArgSince)}) > ArgLimit

\* C7: with a type filter T every primary result has type T.
C7_TypeFilter ==
    (Searched /\ ArgType # NoType) =>
        LET R == Response IN
        \A i \in 1..Len(R) : R[i].type = ArgType

\* a filtered search that returned results although items of another type
\* were among the nearest neighbours
C7_Witness ==
    /\ Searched /\ ArgType # NoType
    /\ Len(Response) >= 1
    /\ \E id \in Fetched : store[id].type # ArgType

\* the instant a timestamp string denotes: "2" is the start of "2x"
Instant(ts) == IF Len(ts) = 1 THEN 10 * ts[1] ELSE 10 * ts[1] + ts[2]

\* C8: with since = s no primary result has a timestamp earlier than s.
C8_SinceLowerBound ==
    (Searched /\ ArgSince # NoSince) =>
        LET R == Response IN
        \A i \in 1..Len(R) :
            R[i].timestamp # NoTimestamp =>
                ~(Instant(R[i].timestamp) < Instant(ArgSince))

\* a search with since that returned a timestamped result although an
\* older item was among the nearest neighbours
C8_Witness ==
    /\ Searched /\ ArgSince # NoSince
    /\ LET R == Response IN
       \E i \in 1..Len(R) : R[i].timestamp # NoTimestamp
    /\ \E id \in Fetched :
          /\ store[id].timestamp # NoTimestamp
          /\ Instant(store[id].timestamp) < Instant(ArgSince)

PrimaryIds(R) == {R[i].id : i \in 1..Len(R)}

\* C9: no RelatedItem of a response has the id of a primary result of the
\* same response (its own result or another one).
C9_RelatedExclusive ==
    (Searched /\ ArgIncludeRelated) =>
        LET R == Response
            primary == PrimaryIds(R)
        IN \A i \in 1..Len(R) :
              \A k \in 1..Len(R[i].related) :
                  R[i].related[k].id \notin primary

\* a response with two primary results near enough to each other to be
\* each other's related item, and a related list that is not empty
C9_Witness ==
    /\ Searched /\ ArgIncludeRelated
    /\ LET R == Response IN
       \E i, j \in 1..Len(R) :
          /\ i # j
          /\ Similarity(Embed(R[i].content), Embed(R[j].content))
                > RelatedFloorMilli
          /\ Len(R[i].related) >= 1

\* the score of a store item against the content of a primary result
ScoreToResult(result, id) ==
    Similarity(Embed(result.content), store[id].vector)

\* C10: a related list has at most 3 items; each is one of the 8 nearest
\* neighbours of the result's own content (fewer than 8 items score
\* higher), carries the score against that content, and scores above 0.4.
C10_RelatedBounded ==
    (Searched /\ ArgIncludeRelated) =>
        LET R == Response IN
        \A i \in 1..Len(R) :
            /\ Len(R[i].related) <= 3
            /\ \A k \in 1..Len(R[i].related) :
                  LET rel == R[i].related[k] IN
                  /\ rel.id \in ListItems(store)
                  /\ rel.score = ScoreToResult(R[i], rel.id)
                  /\ rel.score > 400
                  /\ Cardinality({id \in ListItems(store) :
                        ScoreToResult(R[i], id) > rel.score}) < 8

\* a result with a full related list on an index of more than 8 items, where
\* more than 3 other items score above 0.4, one scores below, and the
\* query's embedding differs from the result's
C10_Witness ==
    /\ Searched /\ ArgIncludeRelated
    /\ Cardinality(ListItems(store)) > 8
    /\ LET R == Response IN
       \E i \in 1..Len(R) :
          /\ Len(R[i].related) = 3
          /\ Cardinality({id \in ListItems(store) \ PrimaryIds(R) :
                ScoreToResult(R[i], id) > 400}) > 3
          /\ \E id \in ListItems(store) : ScoreToResult(R[i], id) <= 400
          /\ Embed(ArgQuery) # Embed(R[i].content)

----------------------------------------------------------------------------
(* Claims on getEntryWithRelated, under SpecSearch *)

Looked == resp.op = "getEntryWithRelated"
ArgId == resp.args[1]

\* C11: getEntryWithRelated(id) on an indexed id returns that entry and the
\* related list that the relatedness expansion of searchMemory gives for a
\* single result with this id: same fan-out, own id excluded, score > 0.4,
\* same cap, same fields (id, type, source, snippet, score).
C11_SameExpansion ==
    (Looked /\ ArgId \in ListItems(store)) =>
        /\ resp.out.entry.id = ArgId
        /\ resp.out.entry.content = store[ArgId].content
        /\ resp.out.related = RelatedOf(store, [id |-> ArgId], {ArgId})

\* C12: getEntryWithRelated on an id that is not in the store returns
\* {entry: null, related: []}, does not raise, makes no embedding call and
\* leaves the store unchanged.
C12_NotFound ==
    [][(resp'.op = "getEntryWithRelated" /\ resp'.args[1] \notin ListItems(store))
          => /\ resp'.out.entry = NoEntry
             /\ resp'.out.related = <<>>
             /\ ~resp'.out.raised
             /\ resp'.out.embedCalls = 0
             /\ store' = store]_vars

\* a lookup of an unknown id on an index that holds items
C12_Witness ==
    /\ Looked /\ ArgId \notin ListItems(store)
    /\ Cardinality(ListItems(store)) >= 2
    /\ resp.out.entry = NoEntry

\* C13: searchMemory on an index with no entries returns the empty list,
\* for every query and every combination of limit, type, since and
\* includeRelated.
C13_EmptyIndex ==
    (Searched /\ ListItems(store) = {}) => Response = <<>>

\* a search with a type filter, a since bound and includeRelated on the
\* index getIndex has just created
C13_Witness ==
    /\ Searched /\ ListItems(store) = {}
    /\ index.created
    /\ ArgType # NoType /\ ArgSince # NoSince /\ ArgIncludeRelated

----------------------------------------------------------------------------
(* Claims on incremental operations and rebuildIndex, under SpecIncr *)

SourceTreeEmpty == (\A p \in FsPaths : ~files[p].exists) /\ log = <<>>

\* C14: rebuildIndex never raises over a missing state file, a missing
\* projects / people / meetings / topics directory or a missing journal
\* log, and on a fully empty source tree it returns itemCount 0 and leaves
\* the store empty.
C14_MissingSourcesAreEmpty ==
    resp.op = "rebuildIndex" =>
        /\ ~resp.out.raised
        /\ SourceTreeEmpty =>
              (resp.out.itemCount = 0 /\ ListItems(store) = {})

\* a rebuild on a fully empty source tree, after files had been indexed
\* (topics.md was written by an earlier call)
C14_Witness ==
    /\ resp.op = "rebuildIndex" /\ SourceTreeEmpty
    /\ resp.out.itemCount = 0
    /\ ~resp.out.created

\* the text of a file whose first and last lines are not blank
WholeFile(content) == JoinLines([i \in 1..Len(content) |-> RenderLine(content[i])])

H2Count(content) == Cardinality({i \in 1..Len(content) : content[i].kind = "h2"})

\* the ids of the store entries whose source is path p
EntriesOf(st, p) == {id \in ListItems(st) : st[id].source = PathStr(p)}

\* C16: a topic-typed file yields exactly one item, with id
\* topic-<filename> and the whole file as content, however many "## "
\* headings it has: indexFile(path, content, "topic") returns itemCount 1
\* and the store then holds that one entry for the path; after
\* rebuildIndex every topic file has that one entry.
C16_TopicOneItem ==
    /\ (resp.op = "indexFile" /\ resp.args[3] = "topic") =>
          LET p == resp.args[1]  c == resp.args[2] IN
          /\ resp.out.itemCount = 1
          /\ EntriesOf(store, p) = {"topic-" \o Filename(p)}
          /\ store["topic-" \o Filename(p)].content = WholeFile(c)
          /\ store["topic-" \o Filename(p)].type = "topic"
    /\ (resp.op = "rebuildIndex" /\ files[P_t].exists) =>
          /\ EntriesOf(store, P_t) = {"topic-t.md"}
          /\ store["topic-t.md"].content = WholeFile(files[P_t].content)
          /\ store["topic-t.md"].type = "topic"

\* indexFile of a topic file with two "## " headings
C16_Witness ==
    /\ resp.op = "indexFile" /\ resp.args[3] = "topic"
    /\ H2Count(resp.args[2]) = 2
    /\ "topic-t.md" \in ListItems(store)

\* C19: indexFile, indexJournalEntry, indexItem and indexItems never remove
\* an id from the store (the entries of sections a file has lost stay), and
\* rebuildIndex leaves no id that the sources (which it does not change) do
\* not give.
C19_IncrementalNeverDeletes ==
    [][/\ resp'.op \in {"indexFile", "indexJournalEntry", "indexItem", "indexItems"}
          => ListItems(store) \subseteq ListItems(store')
       /\ resp'.op = "rebuildIndex"
          => (ListItems(store') \subseteq DerivedIds /\ files' = files /\ log' = log)]_vars

\* a.md was re-indexed with one section where it had two: the entry of
\* the second section is still in the store
C19_Witness ==
    /\ resp.op = "indexFile" /\ resp.args[1] = P_a /\ resp.args[2] = DocShrunk
    /\ "project-a.md-2" \in ListItems(store)

----------------------------------------------------------------------------
(* Claims on chunking and on the update of one file, under Spec *)

\* the positions of the lines that start with "## "
H2Positions(doc) == {i \in 1..Len(doc) : doc[i].kind = "h2"}

\* the first "## " line after position h, or the end of the document
NextH2(doc, h) ==
    LET later == {j \in H2Positions(doc) : j > h} IN
    IF later = {} THEN Len(doc) + 1
    ELSE CHOOSE j \in later : \A k \in later : j <= k

\* the lines from position h + 1 up to the next "## " line
BodyOf(doc, h) == SubSeq(doc, h + 1, NextH2(doc, h) - 1)

\* some line has a character that is not whitespace
HasText(lines) == \E i \in 1..Len(lines) : ~IsBlank(RenderLine(lines[i]))

\* the section names the claim gives a document, in document order
ExpectedSections(doc) ==
    LET kept == SelectSeq([i \in 1..Len(doc) |-> i],
                          LAMBDA i : i \in H2Positions(doc)
                                     /\ HasText(BodyOf(doc, i)))
    IN (IF HasText(BodyOf(doc, 0)) THEN <<"preamble">> ELSE <<>>)
       \o [k \in 1..Len(kept) |-> TrimBoth(doc[kept[k]].text)]

\* C17: for a non-topic type, indexFile derives, in document order, a
\* preamble item iff the text before the first "## " line has
\* non-whitespace content, then one item per "## " segment whose body is
\* not empty, with section the trimmed title line; it returns their number
\* and the store holds each of them.
C17_Chunking ==
    (resp.op = "indexFile" /\ resp.args[3] # "topic") =>
        LET items == IndexFileItems(resp.args[1], resp.args[2], resp.args[3])
            expected == ExpectedSections(resp.args[2])
        IN /\ [i \in 1..Len(items) |-> items[i].section] = expected
           /\ resp.out.itemCount = Len(expected)
           /\ \A i \in 1..Len(items) :
                 /\ items[i].id \in ListItems(store)
                 /\ store[items[i].id].section = expected[i]
                 /\ store[items[i].id].content = items[i].content

\* "## Status\nActive.\n## Risks\nNone yet." indexed: two items, Status and
\* Risks, no preamble
C17_Witness ==
    /\ resp.op = "indexFile" /\ resp.args[3] = "project"
    /\ resp.args[1] = P_a /\ resp.args[2] = DocScenario
    /\ resp.out.itemCount = 2
    /\ store["project-a.md-1"].section = "Status"
    /\ store["project-a.md-2"].section = "Risks"
    /\ "project-a.md-preamble" \notin ListItems(store)

\* the step is indexFile(p, new, t) right after indexFile(p, old, t)
Reindexed ==
    /\ resp.op = "indexFile" /\ resp'.op = "indexFile"
    /\ resp'.args[1] = resp.args[1] /\ resp'.args[3] = resp.args[3]
    /\ resp.args[3] # "topic"

\* what the first of two indexFile calls wrote is, after the second, what
\* the second derives under the same id
PreviousVersionReplaced ==
    LET old == IndexFileItems(resp.args[1], resp.args[2], resp.args[3])
        new == IndexFileItems(resp'.args[1], resp'.args[2], resp'.args[3])
    IN \A i \in 1..Len(old) :
          \E j \in 1..Len(new) :
              /\ new[j].id = old[i].id
              /\ store'[old[i].id].content = new[j].content
              /\ store'[old[i].id].section = new[j].section

\* C18 as stated: when a file is re-indexed with the same number and order
\* of "## " sections as the version indexed before, no entry still holds
\* what the previous version wrote.
C18_StableSectionsReplaced ==
    [][(Reindexed /\ H2Count(resp'.args[2]) = H2Count(resp.args[2]))
          => PreviousVersionReplaced]_vars

\* every chunk of the old document is still a chunk of the new one: the
\* preamble, if the old one had text there, and every section with a body
ChunksKept(old, new) ==
    /\ H2Count(new) = H2Count(old)
    /\ HasText(BodyOf(old, 0)) => HasText(BodyOf(new, 0))
    /\ \A k \in 1..H2Count(old) :
          LET ho == CHOOSE h \in H2Positions(old) :
                      Cardinality({x \in H2Positions(old) : x <= h}) = k
              hn == CHOOSE h \in H2Positions(new) :
                      Cardinality({x \in H2Positions(new) : x <= h}) = k
          IN HasText(BodyOf(old, ho)) => HasText(BodyOf(new, hn))

\* C18 amended: when a file is re-indexed with the same number of "## "
\* sections, and the new version still has text before the first heading
\* if the old one had, and a body in every section where the old one had,
\* no entry still holds what the previous version wrote.
C18_SameChunksReplaced ==
    [][(Reindexed /\ ChunksKept(resp.args[2], resp'.args[2]))
          => PreviousVersionReplaced]_vars

\* a.md re-indexed with a changed body of its one section (and a preamble
\* it did not have before): the entry of the section holds the new body
C18_Witness ==
    /\ resp.op = "indexFile" /\ resp.args[1] = P_a /\ resp.args[3] = "project"
    /\ resp.out.previous = DocNoPreamble
    /\ resp.args[2] = DocShrunk
    /\ "project-a.md-1" \in ListItems(store)
    /\ store["project-a.md-1"].content = "## Status\n\nPaused."
    /\ "project-a.md-2" \notin ListItems(store)
    /\ "project-a.md-preamble" \in ListItems(store)

\* C20: indexFile(path, ...) leaves every store entry whose source is
\* another path as it is, also the entries of a file with the same base
\* name in another sub-directory, and every journal entry.
C20_OnlyOwnEntries ==
    [][resp'.op = "indexFile" =>
          \A id \in ListItems(store) :
              store[id].source # PathStr(resp'.args[1]) =>
                  (id \in ListItems(store') /\ store'[id] = store[id])]_vars

----------------------------------------------------------------------------
(* Claims on the order and the extent of search results, under SpecSearch *)

\* the store's ranked answer to the query of the recorded search
RankedForQuery == QueryItems(store, Embed(ArgQuery), 2 * ArgLimit)

\* the place of id in a ranked list
PlaceIn(ranked, id) == CHOOSE k \in 1..Len(ranked) : ranked[k].id = id

\* C21: the primary results are in descending order of score and keep the
\* relative order (and the scores) of the store's ranked answer, with or
\* without filters and relatedness expansion; no other sort key is used.
C21_OrderedByScore ==
    Searched =>
        LET R == Response
            ranked == RankedForQuery
        IN \A i \in 1..Len(R) :
             /\ \E k \in 1..Len(ranked) :
                    ranked[k].id = R[i].id /\ ranked[k].score = R[i].score
             /\ \A j \in 1..Len(R) :
                    i < j => /\ R[i].score >= R[j].score
                             /\ PlaceIn(ranked, R[i].id) < PlaceIn(ranked, R[j].id)

\* a filtered search with relatedness expansion that returned two results
\* of different score, with a filtered-out item ranked between two results
C21_Witness ==
    /\ Searched /\ ArgIncludeRelated /\ ArgType # NoType
    /\ LET R == Response
           ranked == RankedForQuery
       IN /\ \E i, j \in 1..Len(R) : R[i].score > R[j].score
          /\ \E i, j \in 1..Len(R), k \in 1..Len(ranked) :
                /\ PlaceIn(ranked, R[i].id) < k
                /\ k < PlaceIn(ranked, R[j].id)
                /\ ~PassesFilter(store[ranked[k].id], ArgType, ArgSince)

\* the ids of the store entries that pass the filters of the recorded search
Passing == {id \in ListItems(store) : PassesFilter(store[id], ArgType, ArgSince)}

\* C30: searchMemory returns the first limit entries, in the store's
\* order, of those among the 2 x limit nearest neighbours that pass the
\* type and since filters; so on an index of at most 2 x limit entries
\* every entry that passes the filters is returned, up to limit.
C30_ExactResults ==
    Searched =>
        LET R == Response
            ranked == RankedForQuery
            pass == SelectSeq(ranked, LAMBDA x :
                        PassesFilter(store[x.id], ArgType, ArgSince))
        IN /\ Len(R) = Min(ArgLimit, Len(pass))
           /\ \A i \in 1..Len(R) : R[i].id = pass[i].id
           /\ Cardinality(ListItems(store)) <= 2 * ArgLimit =>
                 /\ Len(R) = Min(ArgLimit, Cardinality(Passing))
                 /\ Cardinality(Passing) <= ArgLimit => PrimaryIds(R) = Passing

\* two journal entries and two other entries in the index: a search with
\* type journal and limit 2 returned both journal entries
C30_Witness ==
    /\ Searched /\ ArgType = "journal" /\ ArgLimit = 2 /\ ArgSince = NoSince
    /\ Cardinality(ListItems(store)) = 4
    /\ Cardinality(Passing) = 2
    /\ PrimaryIds(Response) = Passing

----------------------------------------------------------------------------
(* Claims on the two paths to the index, under SpecEquiv *)

\* the source tree that holds one file
OneFileTree(p, c) == [q \in FsPaths |-> IF q = p THEN Present(c) ELSE Absent]

----------------------------------------------------------------------------
(* Claims on the topics listing, under SpecTopics *)

ListingWritten ==
    \/ resp.op = "rebuildIndex"
    \/ resp.op = "indexFile" /\ resp.args[3] = "topic"

\* the lines of the listing after its four heading lines, without the
\* empty last line
ListingEntries == SubSeq(topicsMd.lines, 5, Len(topicsMd.lines) - 1)

TopicsPresent == {p \in TopicPaths : files[p].exists}

\* where the first level-1 heading line of doc stands, 0 when it has none
FirstH1(doc) ==
    LET hs == {i \in 1..Len(doc) : doc[i].kind = "h1"} IN
    IF hs = {} THEN 0 ELSE CHOOSE i \in hs : \A j \in hs : i <= j

\* the text of the first level-1 heading of doc, "" when there is none
HeadingText(doc) == IF FirstH1(doc) = 0 THEN "" ELSE doc[FirstH1(doc)].text

\* the first line after the first level-1 heading that is not blank
LineAfterHeading(doc) ==
    LET js == {j \in 1..Len(doc) : j > FirstH1(doc) /\ ~IsBlank(RenderLine(doc[j]))}
    IN IF FirstH1(doc) = 0 \/ js = {} THEN ""
       ELSE RenderLine(doc[CHOOSE j \in js : \A k \in js : j <= k])

\* the listing has one line "- filename - title" per topic file present,
\* the lines stand in the order of their titles, and generating it again
\* gives the same lines
ListingIs(Title(_)) ==
    ListingWritten =>
        LET L == ListingEntries
            LineOf(p) == "- " \o Filename(p) \o " - " \o Title(p)
            At(p) == CHOOSE i \in 1..Len(L) : L[i] = LineOf(p)
        IN /\ topicsMd.exists
           /\ Len(L) = Cardinality(TopicsPresent)
           /\ \A p \in TopicsPresent :
                 Cardinality({i \in 1..Len(L) : L[i] = LineOf(p)}) = 1
           /\ \A p, q \in TopicsPresent :
                 TitleRank(Title(p)) < TitleRank(Title(q)) => At(p) < At(q)
           /\ GenerateTopicsIndex(files) = topicsMd

TitleOrFilename(p) ==
    IF FirstH1(files[p].content) # 0 THEN HeadingText(files[p].content)
    ELSE Filename(p)

TitleOrStem(p) ==
    LET doc == files[p].content IN
    IF HeadingText(doc) # "" THEN HeadingText(doc)
    ELSE IF LineAfterHeading(doc) # "" THEN LineAfterHeading(doc)
    ELSE StripMd(Filename(p))

\* C25 as stated: after rebuildIndex or indexFile of a topic, the listing
\* has exactly one line "- filename - title" per topic file present,
\* sorted by title, the title being the first level-1 heading or, when
\* there is none, the file name; regenerating it yields the same listing.
C25_FilenameFallback == ListingIs(TitleOrFilename)

\* C25, amended: the same, the title being the text of the first level-1
\* heading (when that heading line has no text, the next line of the file
\* that is not blank) or, when there is neither, the file name without
\* its .md extension.
C25_StemFallback == ListingIs(TitleOrStem)

\* u.md is headed "Alpha" and t.md has no level-1 heading: the listing
\* names u.md before t.md, and t.md under the title "t"
C25_Witness ==
    /\ ListingWritten
    /\ files[P_u] = Present(DocAlpha) /\ files[P_t] = Present(DocNoPreamble)
    /\ ListingEntries = <<"- u.md - Alpha", "- t.md - t">>

----------------------------------------------------------------------------
(* Claims on the journal, under SpecJournal *)

\* C24: the journal log is append-only: whatever operation runs (logJournal,
\* the log_journal tool, indexJournalEntry, rebuildIndex, searchMemory,
\* getRecentJournalEntries), the lines the log held before are still its
\* first lines, unchanged and in the same order.
C24_AppendOnly ==
    [][Len(log) <= Len(log') /\ SubSeq(log', 1, Len(log)) = log]_vars

\* a rebuild has read a log of at least two lines and indexed an entry
C24_Witness ==
    /\ resp.op = "rebuildIndex" /\ Len(log) >= 2
    /\ \E i \in 1..Len(log) :
          log[i].ok /\ JournalId(log[i].entry.timestamp) \in ListItems(store)

\* C29: when the log_journal tool returns, the timestamp under which the
\* entry was indexed is the timestamp written to its log line.
C29_SameTimestamp ==
    resp.op = "log_journal" =>
        /\ resp.out.indexed = log[Len(log)].entry.timestamp
        /\ JournalId(log[Len(log)].entry.timestamp) \in ListItems(store)

----------------------------------------------------------------------------
(* Claims on rebuildIndex step by step, under SpecConc *)

\* the index rebuildIndex derives from the sources
FullIndex == RebuildIndex(EmptyStore, files, log).store

\* C22: rebuildIndex is not atomic to reads: a getIndexStats that runs
\* between the deletions and the end of the insertions sees an empty or
\* partly filled index although the sources are not empty (the witness);
\* once a rebuildIndex has returned, without a failure of the embedding or
\* the store, the index is the full index of the sources and a read sees it.
C22_ReadAfterRebuild ==
    (rb.pc = "idle" /\ rb.done) =>
        /\ store = FullIndex
        /\ resp.op = "getIndexStats" =>
              resp.out.itemCount = Cardinality(ListItems(FullIndex))

\* getIndexStats ran while a rebuildIndex was inserting and counted fewer
\* entries than the sources give, and more than none
C22_Witness ==
    /\ rb.pc \in {"insert", "journal"}
    /\ resp.op = "getIndexStats"
    /\ resp.out.itemCount > 0
    /\ resp.out.itemCount < Cardinality(ListItems(FullIndex))

\* state files, then projects, people, meetings, topics, then the journal
TypeRank(type) ==
    CASE type = "state" -> 1 [] type = "project" -> 2 [] type = "person" -> 3
      [] type = "meeting" -> 4 [] type = "topic" -> 5 [] type = "journal" -> 6

\* the ids of the chunks of the file at p indexed as type, preamble first
ChunkIds(p, type) ==
    LET stem == type \o "-" \o Filename(p) \o "-" IN
    <<stem \o "preamble">> \o [i \in 1..4 |-> stem \o ToString(i)]

IdsOf(written) == [i \in 1..Len(written) |-> written[i].id]

\* the upserts so far are in the order of the sources
InSourceOrder(written) ==
    LET journal == SelectSeq(written, LAMBDA w : w.type = "journal") IN
    /\ \A i, j \in 1..Len(written) :
          i < j => TypeRank(written[i].type) <= TypeRank(written[j].type)
    /\ \A p \in FsPaths :
          LET mine == SelectSeq(written, LAMBDA w :
                          w.source = PathStr(p) /\ w.type \notin {"topic", "journal"})
              ids == {mine[i].id : i \in 1..Len(mine)}
          IN Len(mine) > 0 =>
                IdsOf(mine) = SelectSeq(ChunkIds(p, mine[1].type),
                                        LAMBDA id : id \in ids)
    /\ Len(journal) <= Len(log)
    /\ \A i \in 1..Len(journal) :
          log[i].ok /\ journal[i].id = JournalId(log[i].entry.timestamp)

\* C27: within one rebuildIndex the upserts are issued one at a time in a
\* fixed order: the non-journal items first (state files, projects, people,
\* meetings, topics; within a file the preamble, then the sections by
\* position), then the journal entries in log order.
C27_UpsertOrder ==
    [][(rb'.written # rb.written /\ rb'.written # <<>>) =>
          /\ Len(rb'.written) = Len(rb.written) + 1
          /\ SubSeq(rb'.written, 1, Len(rb.written)) = rb.written
          /\ LET w == rb'.written[Len(rb'.written)] IN
             /\ w.id \in ListItems(store')
             /\ \A id \in ListItems(store') \ {w.id} :
                   id \in ListItems(store) /\ store'[id] = store[id]
          /\ InSourceOrder(rb'.written)]_vars

\* a rebuild has written the chunks of a state file, a project file and a
\* topic, and two journal entries
C27_Witness ==
    /\ rb.pc = "journal"
    /\ IdsOf(rb.written) = <<"state-today.md-preamble", "state-today.md-1",
                             "project-a.md-1", "topic-t.md",
                             "journal-11", "journal-12">>

\* C23: a failure of the embedding or of the store during rebuildIndex, in
\* whichever phase, the journal phase included, reaches the caller: the
\* call raises, it does not return a result.
C23_FailurePropagates ==
    (resp.op = "rebuildIndex" /\ resp.out.faulted) => resp.out.raised

----------------------------------------------------------------------------
(* Claims on the scheduler, under SpecReminder *)

\* C26: a one-shot reminder fires once and is then removed: once its date
\* has come, its job has fired and the scheduler has synchronised again,
\* the payload was delivered exactly once, the reminder file is deleted
\* and no job remains, also when the OpenCode server was not reachable at
\* the date.
C26_FiredOnceAndRemoved ==
    (sched.fired /\ sched.synced) =>
        sched.delivered = 1 /\ ~sched.file /\ sched.job = "none"

----------------------------------------------------------------------------
(* Claims on the since filter, under SpecSearch *)

\* the entry ranked i-th is kept by a since filter alone: it has no
\* timestamp, or one that is not before since
KeptBySince(ranked, i) ==
    \/ store[ranked[i].id].timestamp = NoTimestamp
    \/ ~StrLess(store[ranked[i].id].timestamp, ArgSince)

----------------------------------------------------------------------------
(* Claims on the file.edited hook, under SpecRebuild *)

\* C36: for every file the file.edited hook indexes, the ids it writes are
\* the ids rebuildIndex derives for that file, also for a file under
\* state/topics/.
C36_HookIdsAreRebuildIds ==
    resp.op = "indexFile" =>
        LET p == resp.args[1]  c == resp.args[2]  t == resp.args[3]
            derived == NonJournalItems(OneFileTree(p, c))
        IN ListItems(IndexFile(EmptyStore, p, c, t).store)
              = {derived[i].id : i \in 1..Len(derived)}

----------------------------------------------------------------------------
(* Claims on indexItems, under SpecIncr *)

\* C34: indexItems computes the embeddings of the whole batch before its
\* first upsert: when embedBatch fails no item of the batch is written and
\* the store is unchanged; indexItems([]) makes no embedding call and no
\* store access; a batch that is embedded is embedded in one call and
\* written whole.
C34_BatchBeforeUpsert ==
    [][resp'.op = "indexItems" =>
          /\ resp'.out.raised => store' = store
          /\ resp'.args = <<>> =>
                /\ store' = store /\ index' = index
                /\ resp'.out.embedCalls = 0 /\ ~resp'.out.raised
          /\ (resp'.args # <<>> /\ ~resp'.out.raised) =>
                /\ resp'.out.embedCalls = 1
                /\ \A i \in 1..Len(resp'.args) : resp'.args[i] \in ListItems(store')]_vars

\* indexItems of two items failed in embedBatch on a store that holds
\* entries, and neither item is in the store
C34_Witness ==
    /\ resp.op = "indexItems" /\ resp.out.raised
    /\ ListItems(store) # {}
    /\ \A i \in 1..Len(resp.args) : resp.args[i] \notin ListItems(store)

----------------------------------------------------------------------------
(* Claims on a failure during rebuildIndex, under SpecConc *)

\* C35: rebuildIndex has deleted every entry it listed before it reads a
\* source or computes an embedding: the store is empty when the sources are
\* read, and when the batch embedding of the non-journal items then fails
\* the call raises and leaves the store empty.
C35_ClearedBeforeEmbedding ==
    [][(rb.pc = "clear" /\ rb.del = {} /\ rb' # rb) =>
          /\ store = EmptyStore /\ store' = EmptyStore
          /\ rb'.pc = "idle" =>
                resp'.op = "rebuildIndex" /\ resp'.out.raised]_vars

\* a rebuildIndex that found three entries or more in the store raised in
\* embedBatch: the store is empty, while the sources give entries
C35_Witness ==
    /\ rb.pc = "idle" /\ resp.op = "rebuildIndex" /\ resp.out.raised
    /\ resp.out.phase = "embedBatch" /\ resp.out.listed >= 3
    /\ store = EmptyStore
    /\ FullIndex # EmptyStore

----------------------------------------------------------------------------
(* Claims on edits beside a rebuild, under SpecRace *)

\* C33: when an indexFile(path, newContent, type) runs beside a
\* rebuildIndex and both have completed, the store entries of that file
\* hold the file's latest content: every chunk of the content on disk is in
\* the store under its id.
C33_LatestContentWins ==
    (rb.pc = "idle" /\ rb.done) =>
        \A p \in RacePaths :
            files[p].exists =>
                LET latest == IndexFile(EmptyStore, p, files[p].content,
                                        GetMemoryType(p)).store
                IN \A id \in ListItems(latest) :
                      id \in ListItems(store) /\ store[id] = latest[id]

----------------------------------------------------------------------------
(* Claims on the reminder files, under SpecStore *)

\* C37: once removeReminder(id) has returned true, and until a reminder is
\* added under that id again, the reminder does not exist: no file of the
\* directory holds it and listReminders does not return it, also when a
\* markReminderRun(id) is in flight.
C37_RemovedStaysRemoved ==
    \A id \in sched.removed :
        \A r \in ListReminders(sched.dir) : r.id # id

\* the reminder stored under id a: the content of its file when that file
\* holds a reminder with this id
Stored(dir, a) ==
    IF dir[SafeId(a)].exists /\ dir[SafeId(a)].id = a THEN dir[SafeId(a)]
    ELSE NoReminder

\* C38: reminders with distinct ids are stored independently: adding,
\* marking as run or removing the reminder with id B leaves the stored
\* reminder of every id A # B as it was, also when A and B differ only in
\* characters outside [a-zA-Z0-9_-].
C38_IndependentIds ==
    [][resp'.op \in {"addReminder", "removeReminder", "markReminderRun"} =>
          \A a \in ReminderIds \ {resp'.args[1]} :
              Stored(sched'.dir, a) = Stored(sched.dir, a)]_vars

----------------------------------------------------------------------------
(* Claims on getIndex, under SpecInit *)

\* C32: lazy initialisation of the singleton handle is safe when operations
\* start beside each other before the handle is set: the index is created
\* at most once, one handle is made and shared by all callers, and no
\* caller goes on to a store call on an index that is not created yet.
C32_LazyInitSafe ==
    /\ index.creates <= 1
    /\ index.handles <= 1
    /\ \A c \in Callers : index.pcs[c] = "got" => index.created
====
